---- MODULE Spec2Model ----
(***************************************************************************)
(* FibRust computation core: the arbitrary-precision Fibonacci algorithms  *)
(* (Fast Doubling, Parallel Fast Doubling, FFT Doubling), the adaptive     *)
(* dispatcher with its limits, and the FibRange iterator with its parallel *)
(* producer.                                                               *)
(*                                                                         *)
(* TLC integers are 32 bits wide, so a FibNumber (ibig::UBig) and every    *)
(* u64/u128 quantity that can exceed 2^31 is held as the sequence of its   *)
(* little-endian bytes without a most-significant zero byte (the value of  *)
(* UBig::to_le_bytes); the number 0 is the empty sequence.                 *)
(***************************************************************************)
EXTENDS Integers, Sequences, FiniteSets, TLC

\* One run of a doubling algorithm (fib_pair, fibonacci, fibonacci_parallel,
\* fibonacci_fft): the entry point and its argument, the bit-length threshold
\* in effect, the loop index, the loop state (a, b), the control point, the
\* forked multiplications that have finished, the FFT workspace, the value
\* returned, and the branches the steps have taken.
VARIABLES alg, arg, threshold, idx, fa, fb, pc, tasks, workspace, ret, taken

\* One call of try_fibonacci_adaptive: its argument and what it returned.
VARIABLES req, result

\* One FibRange (its six fields), the arguments it was built from, the items
\* its two ends have yielded, the outcome of the latest call, and, once it has
\* been turned into a parallel iterator, the producers it has been split into.
VARIABLES current, next, position, end, back_current, back_next,
          range_start, range_end, front, back, last, phase, producers

\* The process-wide state behind get_parallel_threshold and prewarm_system:
\* the size of the rayon pool, the OnceLock PARALLEL_THRESHOLD (the state of
\* its Once and the value it holds), the runs of the calibration closure, the
\* thread-local FFT_PLANNER of every thread, and the threads calling in.
VARIABLES num_threads, once, PARALLEL_THRESHOLD, calibrations, FFT_PLANNER,
          callers

\* One call of run_all_parallel: its argument, the three tasks spawned in the
\* scope, the Mutex and the Vec it guards, and what the call returned.
VARIABLES run_n, spawned, mutex, results, returned

\* One loop over the bits that calls report_step_progress at every step: the
\* arguments it passes, and the calls the reporter has received.
VARIABLES num_bits, bit_index, total_work, work_done, last_reported, powers,
          reporter, reports

\* The rayon pool while calls of fibonacci_fft and of prewarm_fft_planner run
\* in it: its size, the jobs waiting to be taken, the nested jobs each worker
\* is running, the borrow flag of each worker's FFT_PLANNER RefCell, and the
\* workers that panicked on a second borrow.
VARIABLES pool_size, jobs, stacks, borrowed, panicked

\* A value taken through the digit conversions of fft.rs: the value, the
\* digit width, the digits ubig_to_digits returned (widened to u64) and the
\* value digits_to_ubig recovered from them (None before the call).
VARIABLES val, digit_bits, digits_u64, recovered

\* The HTTP server (main_impl.rs): the LRU cache of AppState as its entries
\* from least to most recently used, its capacity, the request that holds
\* its Mutex (0 when it is free),
\* the two atomic counters, every /fib request's position in get_fib, and the
\* /cache/stats request's position in cache_stats with what it has read.
VARIABLES cache, capacity, cache_mutex, hits, misses, handlers, stats

\* The benchmark (FibonacciFunction.rs): the arguments of
\* benchmark_fib_with_worker_pool, the position of the main thread and the
\* number of workers it has spawned, each worker thread's position, the
\* messages in the channel, the number of live senders, the messages the main
\* thread has received, and the keys of LRU_CACHE.
VARIABLES n_values, repetitions, worker_count, main_pc, spawned_workers,
          workers, channel, senders, received, LRU_CACHE

\* ------------------------------------------------------------------------
\* Bounds of the model
\* ------------------------------------------------------------------------

\* Largest index n handed to the three doubling algorithms.
MaxN == 200

\* ------------------------------------------------------------------------
\* FibNumber facade (types.rs, FibOps over ibig::UBig)
\* ------------------------------------------------------------------------

\* Canonical form: the most-significant zero bytes are dropped.
RECURSIVE from_le_bytes(_)
from_le_bytes(bytes) ==
  IF bytes = <<>> THEN <<>>
  ELSE IF bytes[Len(bytes)] = 0
       THEN from_le_bytes(SubSeq(bytes, 1, Len(bytes) - 1))
       ELSE bytes

\* The byte export of a FibNumber: minimal length, little-endian.
to_le_bytes(x) == from_le_bytes(x)

\* From<u32>: a machine integer below 2^31 as a FibNumber.
RECURSIVE FromNat(_)
FromNat(v) == IF v = 0 THEN <<>> ELSE <<v % 256>> \o FromNat(v \div 256)

\* The value of a FibNumber that is known to fit a TLC integer.
RECURSIVE ToNat(_)
ToNat(x) == IF x = <<>> THEN 0 ELSE x[1] + 256 * ToNat(Tail(x))

\* The sum of s[lo..hi] (by halves, which keeps the evaluation shallow).
RECURSIVE SumRange(_, _, _)
SumRange(s, lo, hi) ==
  IF lo > hi THEN 0
  ELSE IF lo = hi THEN s[lo]
  ELSE LET mid == (lo + hi) \div 2
       IN  SumRange(s, lo, mid) + SumRange(s, mid + 1, hi)

\* One carry pass over the column values t[lo..hi], least significant
\* first, in base 2^w: <<the digits, the carry out>>.  A negative column
\* value borrows: the digit is the residue, the carry the floor quotient.
RECURSIVE Carry(_, _, _, _, _)
Carry(t, lo, hi, cin, w) ==
  IF lo > hi THEN <<<<>>, cin>>
  ELSE IF lo = hi
       THEN <<<<(t[lo] + cin) % (2 ^ w)>>, (t[lo] + cin) \div (2 ^ w)>>
       ELSE LET mid  == (lo + hi) \div 2
                low  == Carry(t, lo, mid, cin, w)
                high == Carry(t, mid + 1, hi, low[2], w)
            IN  <<low[1] \o high[1], high[2]>>

\* x + y
BigAdd(x, y) ==
  LET n == IF Len(x) > Len(y) THEN Len(x) ELSE Len(y)
      t == [i \in 1..n |-> (IF i <= Len(x) THEN x[i] ELSE 0)
                           + (IF i <= Len(y) THEN y[i] ELSE 0)]
      r == Carry(t, 1, n, 0, 8)
  IN  IF r[2] > 0 THEN Append(r[1], r[2]) ELSE r[1]

\* x < y and x <= y on canonical forms
BigLt(x, y) ==
  LET diff == {i \in 1..Len(x) : x[i] # y[i]}
      top  == CHOOSE i \in diff : \A j \in diff : j <= i
  IN  IF Len(x) # Len(y) THEN Len(x) < Len(y)
      ELSE diff # {} /\ x[top] < y[top]

BigLe(x, y) == ~BigLt(y, x)

\* What an unsigned subtraction below zero leaves: not a FibNumber.  ibig
\* panics there; the facade leaves the behaviour unspecified.
Underflow == <<-1>>

\* x - y, for x >= y
BigSub(x, y) ==
  LET t == [i \in 1..Len(x) |-> x[i] - (IF i <= Len(y) THEN y[i] ELSE 0)]
  IN  IF BigLt(x, y) THEN Underflow
      ELSE from_le_bytes(Carry(t, 1, Len(x), 0, 8)[1])

\* x * m for a machine integer m below 2^23
BigMulSmall(x, m) ==
  LET t == [i \in 1..Len(x) |-> x[i] * m]
      r == Carry(t, 1, Len(x), 0, 8)
  IN  from_le_bytes(r[1] \o FromNat(r[2]))

\* x * y (schoolbook: the column sums, then one carry pass)
BigMul(x, y) ==
  LET n == Len(x) + Len(y)
      col(k) == SumRange([i \in 1..Len(x) |->
                            IF k - i + 1 >= 1 /\ k - i + 1 <= Len(y)
                            THEN x[i] * y[k - i + 1] ELSE 0],
                         1, Len(x))
      t == [k \in 1..n |-> col(k)]
  IN  from_le_bytes(Carry(t, 1, n, 0, 8)[1])

\* x << 1
BigShl1(x) == BigAdd(x, x)

\* self.pow(2)
pow2(x) == BigMul(x, x)

\* floor(x / m) for a machine integer 0 < m < 2^23
BigDivSmall(x, m) ==
  LET RECURSIVE go(_, _, _)
      go(i, rem, acc) ==
        IF i = 0 THEN from_le_bytes(acc)
        ELSE LET t == rem * 256 + x[i]
             IN  go(i - 1, t % m, <<t \div m>> \o acc)
  IN  go(Len(x), 0, <<>>)

\* Number of significant bits; 0 for the value 0.
bit_len(x) ==
  LET RECURSIVE bits(_)
      bits(v) == IF v = 0 THEN 0 ELSE 1 + bits(v \div 2)
  IN  IF x = <<>> THEN 0 ELSE 8 * (Len(x) - 1) + bits(x[Len(x)])

\* ------------------------------------------------------------------------
\* The Fibonacci sequence the claims refer to:
\*   F(0) = 0, F(1) = 1, F(k+2) = F(k) + F(k+1)
\* ------------------------------------------------------------------------

\* Largest index at which a claim reads F.
MaxRef == 2 * MaxN + 8

FibRef ==
  LET step(s) == <<s[2], BigAdd(s[1], s[2]), Append(s[3], s[1])>>
      \* step applied k times (by halves, which keeps the evaluation shallow)
      RECURSIVE run(_, _)
      run(k, s) ==
        IF k = 0 THEN s
        ELSE IF k = 1 THEN step(s)
        ELSE LET half == run(k \div 2, s)
             IN  IF Len(half) > 0 THEN run(k - (k \div 2), half) ELSE half
  IN  run(MaxRef + 1, <<<<>>, <<1>>, <<>>>>)[3]

F(k) == FibRef[k + 1]

\* ------------------------------------------------------------------------
\* Small-n paths (fast_doubling.rs)
\* ------------------------------------------------------------------------

\* A decimal literal of the source, written as its groups of nine decimal
\* digits, most significant group first.
FromDecimal(groups) ==
  LET RECURSIVE go(_, _)
      go(i, acc) ==
        IF i > Len(groups) THEN acc
        ELSE go(i + 1,
                BigAdd(BigMulSmall(BigMulSmall(BigMulSmall(acc, 1000), 1000), 1000),
                       FromNat(groups[i])))
  IN  go(1, <<>>)

\* static FIB_U128_LOOKUP: [u128; 187]
FIB_U128_LOOKUP ==
  LET lit == <<
      <<0>>,
      <<1>>,
      <<1>>,
      <<2>>,
      <<3>>,
      <<5>>,
      <<8>>,
      <<13>>,
      <<21>>,
      <<34>>,
      <<55>>,
      <<89>>,
      <<144>>,
      <<233>>,
      <<377>>,
      <<610>>,
      <<987>>,
      <<1597>>,
      <<2584>>,
      <<4181>>,
      <<6765>>,
      <<10946>>,
      <<17711>>,
      <<28657>>,
      <<46368>>,
      <<75025>>,
      <<121393>>,
      <<196418>>,
      <<317811>>,
      <<514229>>,
      <<832040>>,
      <<1346269>>,
      <<2178309>>,
      <<3524578>>,
      <<5702887>>,
      <<9227465>>,
      <<14930352>>,
      <<24157817>>,
      <<39088169>>,
      <<63245986>>,
      <<102334155>>,
      <<165580141>>,
      <<267914296>>,
      <<433494437>>,
      <<701408733>>,
      <<1, 134903170>>,
      <<1, 836311903>>,
      <<2, 971215073>>,
      <<4, 807526976>>,
      <<7, 778742049>>,
      <<12, 586269025>>,
      <<20, 365011074>>,
      <<32, 951280099>>,
      <<53, 316291173>>,
      <<86, 267571272>>,
      <<139, 583862445>>,
      <<225, 851433717>>,
      <<365, 435296162>>,
      <<591, 286729879>>,
      <<956, 722026041>>,
      <<1548, 008755920>>,
      <<2504, 730781961>>,
      <<4052, 739537881>>,
      <<6557, 470319842>>,
      <<10610, 209857723>>,
      <<17167, 680177565>>,
      <<27777, 890035288>>,
      <<44945, 570212853>>,
      <<72723, 460248141>>,
      <<117669, 030460994>>,
      <<190392, 490709135>>,
      <<308061, 521170129>>,
      <<498454, 011879264>>,
      <<806515, 533049393>>,
      <<1304969, 544928657>>,
      <<2111485, 077978050>>,
      <<3416454, 622906707>>,
      <<5527939, 700884757>>,
      <<8944394, 323791464>>,
      <<14472334, 024676221>>,
      <<23416728, 348467685>>,
      <<37889062, 373143906>>,
      <<61305790, 721611591>>,
      <<99194853, 094755497>>,
      <<160500643, 816367088>>,
      <<259695496, 911122585>>,
      <<420196140, 727489673>>,
      <<679891637, 638612258>>,
      <<1, 100087778, 366101931>>,
      <<1, 779979416, 004714189>>,
      <<2, 880067194, 370816120>>,
      <<4, 660046610, 375530309>>,
      <<7, 540113804, 746346429>>,
      <<12, 200160415, 121876738>>,
      <<19, 740274219, 868223167>>,
      <<31, 940434634, 990099905>>,
      <<51, 680708854, 858323072>>,
      <<83, 621143489, 848422977>>,
      <<135, 301852344, 706746049>>,
      <<218, 922995834, 555169026>>,
      <<354, 224848179, 261915075>>,
      <<573, 147844013, 817084101>>,
      <<927, 372692193, 078999176>>,
      <<1500, 520536206, 896083277>>,
      <<2427, 893228399, 975082453>>,
      <<3928, 413764606, 871165730>>,
      <<6356, 306993006, 846248183>>,
      <<10284, 720757613, 717413913>>,
      <<16641, 027750620, 563662096>>,
      <<26925, 748508234, 281076009>>,
      <<43566, 776258854, 844738105>>,
      <<70492, 524767089, 125814114>>,
      <<114059, 301025943, 970552219>>,
      <<184551, 825793033, 096366333>>,
      <<298611, 126818977, 066918552>>,
      <<483162, 952612010, 163284885>>,
      <<781774, 079430987, 230203437>>,
      <<1264937, 032042997, 393488322>>,
      <<2046711, 111473984, 623691759>>,
      <<3311648, 143516982, 017180081>>,
      <<5358359, 254990966, 640871840>>,
      <<8670007, 398507948, 658051921>>,
      <<14028366, 653498915, 298923761>>,
      <<22698374, 052006863, 956975682>>,
      <<36726740, 705505779, 255899443>>,
      <<59425114, 757512643, 212875125>>,
      <<96151855, 463018422, 468774568>>,
      <<155576970, 220531065, 681649693>>,
      <<251728825, 683549488, 150424261>>,
      <<407305795, 904080553, 832073954>>,
      <<659034621, 587630041, 982498215>>,
      <<1, 066340417, 491710595, 814572169>>,
      <<1, 725375039, 079340637, 797070384>>,
      <<2, 791715456, 571051233, 611642553>>,
      <<4, 517090495, 650391871, 408712937>>,
      <<7, 308805952, 221443105, 020355490>>,
      <<11, 825896447, 871834976, 429068427>>,
      <<19, 134702400, 093278081, 449423917>>,
      <<30, 960598847, 965113057, 878492344>>,
      <<50, 095301248, 058391139, 327916261>>,
      <<81, 055900096, 023504197, 206408605>>,
      <<131, 151201344, 081895336, 534324866>>,
      <<212, 207101440, 105399533, 740733471>>,
      <<343, 358302784, 187294870, 275058337>>,
      <<555, 565404224, 292694404, 015791808>>,
      <<898, 923707008, 479989274, 290850145>>,
      <<1454, 489111232, 772683678, 306641953>>,
      <<2353, 412818241, 252672952, 597492098>>,
      <<3807, 901929474, 025356630, 904134051>>,
      <<6161, 314747715, 278029583, 501626149>>,
      <<9969, 216677189, 303386214, 405760200>>,
      <<16130, 531424904, 581415797, 907386349>>,
      <<26099, 748102093, 884802012, 313146549>>,
      <<42230, 279526998, 466217810, 220532898>>,
      <<68330, 027629092, 351019822, 533679447>>,
      <<110560, 307156090, 817237632, 754212345>>,
      <<178890, 334785183, 168257455, 287891792>>,
      <<289450, 641941273, 985495088, 042104137>>,
      <<468340, 976726457, 153752543, 329995929>>,
      <<757791, 618667731, 139247631, 372100066>>,
      <<1226132, 595394188, 293000174, 702095995>>,
      <<1983924, 214061919, 432247806, 074196061>>,
      <<3210056, 809456107, 725247980, 776292056>>,
      <<5193981, 023518027, 157495786, 850488117>>,
      <<8404037, 832974134, 882743767, 626780173>>,
      <<13598018, 856492162, 040239554, 477268290>>,
      <<22002056, 689466296, 922983322, 104048463>>,
      <<35600075, 545958458, 963222876, 581316753>>,
      <<57602132, 235424755, 886206198, 685365216>>,
      <<93202207, 781383214, 849429075, 266681969>>,
      <<150804340, 016807970, 735635273, 952047185>>,
      <<244006547, 798191185, 585064349, 218729154>>,
      <<394810887, 814999156, 320699623, 170776339>>,
      <<638817435, 613190341, 905763972, 389505493>>,
      <<1, 033628323, 428189498, 226463595, 560281832>>,
      <<1, 672445759, 041379840, 132227567, 949787325>>,
      <<2, 706074082, 469569338, 358691163, 510069157>>,
      <<4, 378519841, 510949178, 490918731, 459856482>>,
      <<7, 084593923, 980518516, 849609894, 969925639>>,
      <<11, 463113765, 491467695, 340528626, 429782121>>,
      <<18, 547707689, 471986212, 190138521, 399707760>>,
      <<30, 010821454, 963453907, 530667147, 829489881>>,
      <<48, 558529144, 435440119, 720805669, 229197641>>,
      <<78, 569350599, 398894027, 251472817, 058687522>>,
      <<127, 127879743, 834334146, 972278486, 287885163>>,
      <<205, 697230343, 233228174, 223751303, 346572685>>,
      <<332, 825110087, 067562321, 196029789, 634457848>>
      >>
  IN  [k \in 1..Len(lit) |-> FromDecimal(lit[k])]

\* A value as a u128: the low 16 bytes (wrapping, as in a release build).
AsU128(x) == from_le_bytes(SubSeq(x, 1, IF Len(x) < 16 THEN Len(x) ELSE 16))

\* What stands for the result of a call that panics
Panic == <<-4>>

\* fibonacci_u128(n): the table entry; a panic for n > 186.
fibonacci_u128(n) == IF n > 186 THEN Panic ELSE FIB_U128_LOOKUP[n + 1]

\* A variant of the loop body that never moves b into a
u128_step_keeps_a(s) == <<s[1], AsU128(BigAdd(s[1], s[2]))>>

\* The body of fib_pair_u128's loop: next = a + b; a = b; b = next
u128_step(s) == <<s[2], AsU128(BigAdd(s[1], s[2]))>>

\* The body run k times from s (by halves, which keeps the evaluation
\* shallow)
RECURSIVE u128_run(_, _)
u128_run(k, s) ==
  IF k = 0 THEN s
  ELSE IF k = 1 THEN u128_step(s)
  ELSE LET half == u128_run(k \div 2, s)
       IN  IF Len(half) > 0 THEN u128_run(k - (k \div 2), half) ELSE half

\* (a, b) after each of the first iterations of fib_pair_u128's loop, one for
\* every index of the table: the loop for n is the first n of them.
u128_loop ==
  LET grow(s) == Append(s, u128_step(s[Len(s)]))
      RECURSIVE run(_, _)
      run(k, s) ==
        IF k = 0 THEN s
        ELSE IF k = 1 THEN grow(s)
        ELSE LET half == run(k \div 2, s)
             IN  IF Len(half) > 0 THEN run(k - (k \div 2), half) ELSE half
  IN  run(Len(FIB_U128_LOOKUP), <<<<<<>>, <<1>>>>>>)

\* fib_pair_u128(n): n additive steps from (0, 1) in u128.
fib_pair_u128(n) ==
  IF n = 0 THEN <<<<>>, <<1>>>>
  ELSE IF n < Len(u128_loop) THEN u128_loop[n + 1]
  ELSE u128_run(n, <<<<>>, <<1>>>>)

\* ------------------------------------------------------------------------
\* Fast Doubling (fast_doubling.rs)
\* ------------------------------------------------------------------------

\* 63 - n.leading_zeros(): the index of the highest set bit of n > 0.
RECURSIVE highest_bit(_)
highest_bit(n) == IF n <= 1 THEN 0 ELSE 1 + highest_bit(n \div 2)

\* (n >> i) & 1
RECURSIVE Bit(_, _)
Bit(n, i) == IF i = 0 THEN n % 2 ELSE Bit(n \div 2, i - 1)

\* A variant of fd_step whose bit-0 branch computes a * (2b + a), the sign of
\* F(2k) = F(k) * (2F(k+1) - F(k)) flipped
fd_step_plus(a, b, bit) ==
  LET a_sq == BigMul(a, a)
      b_sq == BigMul(b, b)
      d    == BigAdd(a_sq, b_sq)
  IN  IF bit = 0
      THEN LET two_b_plus_a == BigAdd(BigShl1(b), a)
               c == BigMul(a, two_b_plus_a)
           IN  <<c, d>>
      ELSE LET two_a_plus_b == BigAdd(BigShl1(a), b)
               e == BigMul(b, two_a_plus_b)
           IN  <<d, e>>

\* One iteration of fib_pair's loop: (a, b) -> the next (a, b) for this bit.
fd_step(a, b, bit) ==
  LET a_sq == BigMul(a, a)
      b_sq == BigMul(b, b)
      d    == BigAdd(a_sq, b_sq)
  IN  IF bit = 0
      THEN LET two_b_minus_a == BigSub(BigShl1(b), a)
               c == BigMul(a, two_b_minus_a)
           IN  <<c, d>>
      ELSE LET two_a_plus_b == BigAdd(BigShl1(a), b)
               e == BigMul(b, two_a_plus_b)
           IN  <<d, e>>

\* A variant of pair_fits_u128 that also sends n = 186 to the 128-bit loop,
\* whose last sum F(187) does not fit
pair_fits_u128_186(n) == n <= 186

\* fib_pair's test for the 128-bit path: F(n+1) fits in a u128 up to n = 185
pair_fits_u128(n) == n <= 185

\* fib_pair(n): (F(n), F(n+1))
fib_pair(n) ==
  LET RECURSIVE loop(_, _)
      loop(i, ab) ==
        IF i < 0 THEN ab
        ELSE loop(i - 1, fd_step(ab[1], ab[2], Bit(n, i)))
  IN  IF pair_fits_u128(n) THEN fib_pair_u128(n)
      ELSE IF n = 0 THEN <<<<>>, <<1>>>>
      ELSE loop(highest_bit(n) - 1, <<<<1>>, <<1>>>>)

\* fib_pair(n) for every index explored, evaluated once
fib_pair_values == [n \in 0..(MaxN + 8) |-> fib_pair(n)]

\* A call of fib_pair(n)
call_fib_pair(n) ==
  IF n \in DOMAIN fib_pair_values THEN fib_pair_values[n] ELSE fib_pair(n)

\* fibonacci(n)
fibonacci(n) == IF n <= 186 THEN fibonacci_u128(n) ELSE call_fib_pair(n)[1]

\* fibonacci_fast_doubling(n): alias of fibonacci
fibonacci_fast_doubling(n) == fibonacci(n)

\* ------------------------------------------------------------------------
\* Parallel Fast Doubling (parallel.rs)
\* ------------------------------------------------------------------------

\* A variant of calibrate_parallel_threshold that takes the base for 8 and
\* for 4 cores only above 8 and above 4
calibrate_parallel_threshold_above(cores, micros) ==
  LET base_threshold == IF cores > 8 THEN 25000
                        ELSE IF cores > 4 THEN 40000
                        ELSE 60000
  IN  IF micros < 200 THEN base_threshold + 10000
      ELSE IF micros > 1000
           THEN (IF base_threshold >= 5000 THEN base_threshold - 5000 ELSE 0)
           ELSE base_threshold

\* calibrate_parallel_threshold, as a function of what it measures: the
\* pool's thread count and the elapsed microseconds of F(10 000).
calibrate_parallel_threshold(cores, micros) ==
  LET base_threshold == IF cores >= 8 THEN 25000
                        ELSE IF cores >= 4 THEN 40000
                        ELSE 60000
  IN  IF micros < 200 THEN base_threshold + 10000
      ELSE IF micros > 1000
           THEN (IF base_threshold >= 5000 THEN base_threshold - 5000 ELSE 0)
           ELSE base_threshold

\* Thread 1 of the fork: c = a * (2b - a)
task_c(a, b) ==
  LET two_b == BigShl1(b)
      diff  == BigSub(two_b, a)
  IN  BigMul(a, diff)

\* Threads 2 and 3 of the fork: a.pow(2) and b.pow(2)
task_a_sq(a) == pow2(a)

task_b_sq(b) == pow2(b)

\* A variant of run_task in which b.pow(2) squares b in place, so that the
\* closure computing c reads b * b once the squaring has finished
run_task_in_place(name, a, b, finished) ==
  LET b_read == IF "b_sq" \in DOMAIN finished THEN finished["b_sq"] ELSE b
  IN  IF name = "c" THEN task_c(a, b_read)
      ELSE IF name = "a_sq" THEN task_a_sq(a)
      ELSE task_b_sq(b)

\* The closure the pool runs for one forked multiplication: each borrows a and
\* b immutably and returns a new value, whatever the others have finished
run_task(name, a, b, finished) ==
  IF name = "c" THEN task_c(a, b)
  ELSE IF name = "a_sq" THEN task_a_sq(a)
  ELSE task_b_sq(b)

\* After the join: (c, &a_sq + &b_sq)
par_join(c, a_sq, b_sq) == <<c, BigAdd(a_sq, b_sq)>>

\* The sequential branch of one step: (c, d)
par_inline_step(a, b) ==
  LET two_b == BigShl1(b)
      diff  == BigSub(two_b, a)
      c     == BigMul(a, diff)
      a_sq  == pow2(a)
      b_sq  == pow2(b)
  IN  <<c, BigAdd(a_sq, b_sq)>>

\* A variant of advance with the bit test inverted: a set bit keeps (c, d)
advance_inverted(c, d, bit) == IF bit = 1 THEN <<c, d>> ELSE <<d, BigAdd(c, d)>>

\* A variant of advance whose set-bit branch puts the sum first: (c + d, d)
advance_sum_first(c, d, bit) ==
  IF bit = 0 THEN <<c, d>> ELSE <<BigAdd(c, d), d>>

\* The state update that ends a step of fibonacci_parallel and of
\* fibonacci_fft: the next (a, b) from (c, d) and the bit examined.
advance(c, d, bit) == IF bit = 0 THEN <<c, d>> ELSE <<d, BigAdd(c, d)>>

\* Whether a step of fibonacci_parallel forks
par_forks(a, thr) == bit_len(a) > thr

\* fibonacci_parallel(n) under the threshold get_parallel_threshold() returned
fibonacci_parallel(n, thr) ==
  LET step(ab, i) ==
        LET cd == IF par_forks(ab[1], thr)
                  THEN par_join(task_c(ab[1], ab[2]), task_a_sq(ab[1]),
                                task_b_sq(ab[2]))
                  ELSE par_inline_step(ab[1], ab[2])
        IN  advance(cd[1], cd[2], Bit(n, i))
      RECURSIVE loop(_, _)
      loop(i, ab) == IF i < 0 THEN ab ELSE loop(i - 1, step(ab, i))
  IN  IF n = 0 THEN <<>>
      ELSE IF n = 1 THEN <<1>>
      ELSE IF n = 2 THEN <<1>>
      ELSE loop(highest_bit(n), <<<<>>, <<1>>>>)[1]

\* ------------------------------------------------------------------------
\* FFT Doubling (fft.rs, config.rs)
\* ------------------------------------------------------------------------

FFT_BIT_THRESHOLD == 50000

BASE_BITS_DEFAULT == 13

BASE_BITS_MASSIVE == 12

MASSIVE_THRESHOLD == 100000000

\* A variant of ubig_to_digits_sequential that keeps the zero digits above
\* the value
ubig_to_digits_sequential_untrimmed(bytes, base_bits) ==
  LET mask1 == 2 ^ base_bits
      RECURSIVE drain(_)
      drain(s) ==
        IF s[3] >= base_bits
        THEN drain(<<Append(s[1], s[2] % mask1), s[2] \div mask1,
                     s[3] - base_bits>>)
        ELSE s
      RECURSIVE each(_, _)
      each(k, s) ==
        IF k > Len(bytes) THEN s
        ELSE LET t == drain(<<s[1], s[2] + bytes[k] * (2 ^ s[3]), s[3] + 8>>)
             IN  IF t[3] >= 0 THEN each(k + 1, t) ELSE t
      fed    == each(1, <<<<>>, 0, 0>>)
      pushed == IF fed[3] > 0 \/ fed[1] = <<>>
                THEN Append(fed[1], fed[2]) ELSE fed[1]
  IN  pushed

\* ubig_to_digits_sequential: the bytes repacked into base_bits-wide digits
ubig_to_digits_sequential(bytes, base_bits) ==
  LET mask1 == 2 ^ base_bits
      \* while bit_count >= base_bits { push; shift }
      RECURSIVE drain(_)
      drain(s) ==
        IF s[3] >= base_bits
        THEN drain(<<Append(s[1], s[2] % mask1), s[2] \div mask1,
                     s[3] - base_bits>>)
        ELSE s
      \* for &byte in bytes; s = <<result, bits, bit_count>>
      RECURSIVE each(_, _)
      each(k, s) ==
        IF k > Len(bytes) THEN s
        ELSE LET t == drain(<<s[1], s[2] + bytes[k] * (2 ^ s[3]), s[3] + 8>>)
             IN  IF t[3] >= 0 THEN each(k + 1, t) ELSE t
      fed    == each(1, <<<<>>, 0, 0>>)
      pushed == IF fed[3] > 0 \/ fed[1] = <<>>
                THEN Append(fed[1], fed[2]) ELSE fed[1]
      \* while result.len() > 1 && last == 0 { pop }
      RECURSIVE trim(_)
      trim(r) == IF Len(r) > 1 /\ r[Len(r)] = 0
                 THEN trim(SubSeq(r, 1, Len(r) - 1)) ELSE r
  IN  trim(pushed)

\* ubig_to_digits
ubig_to_digits(v, base_bits) ==
  ubig_to_digits_sequential(to_le_bytes(v), base_bits)

\* digits_to_ubig_sequential: the digits repacked into bytes
digits_to_ubig_sequential(digits, base_bits) ==
  LET \* while bit_count >= 8 { push; shift }
      RECURSIVE drain(_)
      drain(s) ==
        IF s[3] >= 8
        THEN drain(<<Append(s[1], s[2] % 256), s[2] \div 256, s[3] - 8>>)
        ELSE s
      \* for &d in digits; s = <<bytes, bits, bit_count>>
      RECURSIVE each(_, _)
      each(k, s) ==
        IF k > Len(digits) THEN s
        ELSE LET t == drain(<<s[1], s[2] + digits[k] * (2 ^ s[3]),
                              s[3] + base_bits>>)
             IN  IF t[3] >= 0 THEN each(k + 1, t) ELSE t
      fed == each(1, <<<<>>, 0, 0>>)
  IN  from_le_bytes(IF fed[3] > 0 THEN Append(fed[1], fed[2]) ELSE fed[1])

\* digits_to_ubig
digits_to_ubig(digits, base_bits) ==
  IF digits = <<>> THEN <<>>
  ELSE digits_to_ubig_sequential(digits, base_bits)

\* usize::next_power_of_two
RECURSIVE next_power_of_two(_)
next_power_of_two(v) ==
  IF v <= 1 THEN 1 ELSE 2 * next_power_of_two((v + 1) \div 2)

\* What a workspace buffer holds once a transform has run over it in place:
\* spectrum or product data, not digits.
Stale == 1

\* FftWorkspace::new
FftWorkspace_new ==
  [a_complex |-> <<>>, b_complex |-> <<>>, c_complex |-> <<>>,
   d_complex |-> <<>>]

\* A variant of prepare that resizes the buffers and leaves the tails of
\* a_complex and b_complex as the previous step left them
prepare_keep_tails(ws, size, data_len_a, data_len_b) ==
  LET resize(buf) == [k \in 1..size |-> IF k <= Len(buf) THEN buf[k] ELSE 0]
  IN  IF Len(ws.a_complex) # size
      THEN [a_complex |-> resize(ws.a_complex),
            b_complex |-> resize(ws.b_complex),
            c_complex |-> resize(ws.c_complex),
            d_complex |-> resize(ws.d_complex)]
      ELSE ws

\* FftWorkspace::prepare: the four buffers resized to size, and the tails of
\* a_complex and b_complex zeroed from data_len on.
prepare(ws, size, data_len_a, data_len_b) ==
  LET resize(buf) == [k \in 1..size |-> IF k <= Len(buf) THEN buf[k] ELSE 0]
      sized == IF Len(ws.a_complex) # size
               THEN [a_complex |-> resize(ws.a_complex),
                     b_complex |-> resize(ws.b_complex),
                     c_complex |-> resize(ws.c_complex),
                     d_complex |-> resize(ws.d_complex)]
               ELSE ws
      fill(buf, from) == [k \in 1..size |-> IF k > from THEN 0 ELSE buf[k]]
  IN  [sized EXCEPT !.a_complex = fill(@, data_len_a),
                    !.b_complex = fill(@, data_len_b)]

\* copy_to_complex(&mut dest[0..src.len()], src)
copy_to_complex(dest, src) ==
  [k \in 1..Len(dest) |-> IF k <= Len(src) THEN src[k] ELSE dest[k]]

\* The length-N cyclic convolution of u and v: what the inverse transform of
\* the pointwise product of their forward transforms holds once divided by N
\* and rounded, when the floating-point error stays below one half.
cyclic_convolution(u, v) ==
  LET size == Len(u)
  IN  [k \in 1..size |->
         SumRange([j \in 1..size |-> u[j] * v[((k - j) % size) + 1]], 1, size)]

\* What stands for the result of a computation that never returns
NoReturn == <<-2>>

\* process_result: the first result_len rounded values, the carry pass, the
\* digits of the carry that is left, then digits_to_ubig.  A negative carry
\* left after the last value never becomes 0 under >>: the loop does not end.
process_result(values, result_len, base_bits) ==
  LET pass == Carry(values, 1, result_len, 0, base_bits)
      RECURSIVE rest(_)
      rest(carry) ==
        IF carry = 0 THEN <<>>
        ELSE <<carry % (2 ^ base_bits)>> \o rest(carry \div (2 ^ base_bits))
      high   == rest(pass[2])
      digits == pass[1] \o high
                \o [k \in 1..(IF Len(high) < 2 THEN 2 - Len(high) ELSE 0) |-> 0]
  IN  IF pass[2] < 0 THEN NoReturn
      ELSE digits_to_ubig(digits, base_bits)

\* A variant of spectral_diff with the operands the other way round: ac - bc * 2.0
spectral_diff_reversed(ac, bc) == ac - (bc * 2)

\* let diff = (bc * 2.0) - ac, on one value of each operand (the transform is
\* linear, so on the digits as on their spectra)
spectral_diff(ac, bc) == (bc * 2) - ac

\* unified_fft_step up to its inverse transforms: the digit width, the digit
\* vectors, result_len, fft_size, and the rounded values c_complex and
\* d_complex hold after the inverse transforms
unified_fft_transforms(a, b, ws) ==
  LET approx_bits == bit_len(a) + bit_len(b)
      base_bits   == IF approx_bits > MASSIVE_THRESHOLD
                     THEN BASE_BITS_MASSIVE ELSE BASE_BITS_DEFAULT
      a_digits    == ubig_to_digits(a, base_bits)
      b_digits    == ubig_to_digits(b, base_bits)
      result_len  == Len(a_digits) + Len(b_digits)
      fft_size    == next_power_of_two(result_len)
      prepared    == prepare(ws, fft_size, Len(a_digits), Len(b_digits))
      a_complex   == copy_to_complex(prepared.a_complex, a_digits)
      b_complex   == copy_to_complex(prepared.b_complex, b_digits)
      \* cc = ac * (bc * 2.0 - ac); dc = ac * ac + bc * bc
      diffs       == [k \in 1..fft_size |->
                       spectral_diff(a_complex[k], b_complex[k])]
      aa          == cyclic_convolution(a_complex, a_complex)
      bb          == cyclic_convolution(b_complex, b_complex)
  IN  [base_bits |-> base_bits, a_digits |-> a_digits, b_digits |-> b_digits,
       result_len |-> result_len, fft_size |-> fft_size,
       c_values |-> cyclic_convolution(a_complex, diffs),
       d_values |-> [k \in 1..fft_size |-> aa[k] + bb[k]]]

\* The rest of unified_fft_step: both process_result calls, and the
\* workspace the in-place transforms leave
reconstruct(t) ==
  LET used == [k \in 1..t.fft_size |-> Stale]
  IN  <<process_result(t.c_values, t.result_len, t.base_bits),
        process_result(t.d_values, t.result_len, t.base_bits),
        [a_complex |-> used, b_complex |-> used, c_complex |-> used,
         d_complex |-> used]>>

\* A variant of unified_fft_step without the early return for a = 0
unified_fft_step_always_transforms(a, b, ws) ==
  reconstruct(unified_fft_transforms(a, b, ws))

\* unified_fft_step(a, b, workspace): <<c, d, the workspace it leaves>>
unified_fft_step(a, b, ws) ==
  IF bit_len(a) = 0 THEN <<<<>>, pow2(b), ws>>
  ELSE reconstruct(unified_fft_transforms(a, b, ws))

\* Whether both process_result calls of a step returned
returns(cdw) == cdw[1] # NoReturn /\ cdw[2] # NoReturn

\* The standard-multiplication branch of one step of fibonacci_fft: (c, d)
fft_inline_step(a, b) ==
  LET two_b == BigShl1(b)
      diff  == BigSub(two_b, a)
      c     == BigMul(a, diff)
      a_sq  == BigMul(a, a)
      b_sq  == BigMul(b, b)
  IN  <<c, BigAdd(a_sq, b_sq)>>

\* Whether a step of fibonacci_fft takes the unified FFT step
fft_unified(a, b, thr) == bit_len(a) > thr \/ bit_len(b) > thr

\* One iteration of fibonacci_fft's loop: <<c, d, workspace>>
fft_step(a, b, ws, thr) ==
  IF fft_unified(a, b, thr) THEN unified_fft_step(a, b, ws)
  ELSE LET cd == fft_inline_step(a, b) IN <<cd[1], cd[2], ws>>

\* fibonacci_fft(n), with the bit threshold of its steps as a parameter
fibonacci_fft_at(n, thr) ==
  LET RECURSIVE loop(_, _, _)
      loop(i, ab, ws) ==
        IF i < 0 THEN ab
        ELSE LET cdw == fft_step(ab[1], ab[2], ws, thr)
             IN  IF returns(cdw)
                 THEN loop(i - 1, advance(cdw[1], cdw[2], Bit(n, i)), cdw[3])
                 ELSE <<NoReturn, NoReturn>>
  IN  IF n = 0 THEN <<>>
      ELSE IF n = 1 THEN <<1>>
      ELSE loop(highest_bit(n), <<<<>>, <<1>>>>, FftWorkspace_new)[1]

\* fibonacci_fft(n)
fibonacci_fft(n) == fibonacci_fft_at(n, FFT_BIT_THRESHOLD)

\* ------------------------------------------------------------------------
\* Runs of the doubling algorithms, one step at a time
\* ------------------------------------------------------------------------

vars == <<alg, arg, threshold, idx, fa, fb, pc, tasks, workspace, ret, taken,
          req, result, current, next, position, end, back_current, back_next,
          range_start, range_end, front, back, last, phase, producers,
          num_threads, once, PARALLEL_THRESHOLD, calibrations, FFT_PLANNER,
          callers, run_n, spawned, mutex, results, returned,
          num_bits, bit_index, total_work, work_done, last_reported, powers,
          reporter, reports,
          pool_size, jobs, stacks, borrowed, panicked,
          val, digit_bits, digits_u64, recovered,
          cache, capacity, cache_mutex, hits, misses, handlers, stats,
          n_values, repetitions, worker_count, main_pc, spawned_workers,
          workers, channel, senders, received, LRU_CACHE>>

runVars == <<alg, arg, threshold, idx, fa, fb, pc, tasks, workspace, ret,
             taken>>

adaptiveVars == <<req, result>>

rangeVars == <<current, next, position, end, back_current, back_next,
               range_start, range_end, front, back, last, phase, producers>>

poolVars ==
  <<num_threads, once, PARALLEL_THRESHOLD, calibrations, FFT_PLANNER, callers>>

\* No thread has called get_parallel_threshold or prewarm_system
NoPool ==
  /\ num_threads = 0 /\ once = "none" /\ PARALLEL_THRESHOLD = <<>>
  /\ calibrations = <<>> /\ FFT_PLANNER = <<>> /\ callers = <<>>

scopeVars == <<run_n, spawned, mutex, results, returned>>

\* No call of run_all_parallel has been made
NoScope ==
  /\ run_n = 0 /\ spawned = <<>> /\ mutex = "none" /\ results = <<>>
  /\ returned = <<>>

progressVars ==
  <<num_bits, bit_index, total_work, work_done, last_reported, powers,
    reporter, reports>>

\* No loop reports progress
NoProgress ==
  /\ num_bits = 0 /\ bit_index = 0 /\ total_work = 0 /\ work_done = 0
  /\ last_reported = 0 /\ powers = <<>> /\ reporter = <<>> /\ reports = <<>>

borrowVars == <<pool_size, jobs, stacks, borrowed, panicked>>

\* No pool is followed job by job
NoBorrow ==
  /\ pool_size = 0 /\ jobs = <<>> /\ stacks = <<>> /\ borrowed = <<>>
  /\ panicked = {}

digitVars == <<val, digit_bits, digits_u64, recovered>>

\* No value is being converted
NoDigits ==
  /\ val = <<>> /\ digit_bits = 0 /\ digits_u64 = <<>> /\ recovered = <<>>

serverVars == <<cache, capacity, cache_mutex, hits, misses, handlers, stats>>

\* No app has been created
NoServer ==
  /\ cache = <<>> /\ capacity = 0 /\ cache_mutex = 0
  /\ hits = 0 /\ misses = 0 /\ handlers = <<>> /\ stats = <<>>

benchVars == <<n_values, repetitions, worker_count, main_pc, spawned_workers,
               workers, channel, senders, received, LRU_CACHE>>

\* No benchmark is running
NoBench ==
  /\ n_values = <<>> /\ repetitions = 0 /\ worker_count = 0
  /\ main_pc = "none" /\ spawned_workers = 0 /\ workers = <<>>
  /\ channel = <<>> /\ senders = 0 /\ received = <<>> /\ LRU_CACHE = {}

\* The variables of the parts added last, and their idle values
restVars == <<borrowVars, digitVars, serverVars, benchVars>>

NoRest == NoBorrow /\ NoDigits /\ NoServer /\ NoBench

\* No run of a doubling algorithm is in progress
NoRun ==
  /\ alg = "none" /\ arg = 0 /\ threshold = 0 /\ idx = 0
  /\ fa = <<>> /\ fb = <<>> /\ pc = "none" /\ tasks = <<>>
  /\ workspace = FftWorkspace_new /\ ret = <<>> /\ taken = {}

\* No call of try_fibonacci_adaptive has been made
NoRequest == req = <<>> /\ result = [tag |-> "none"]

\* No FibRange exists
NoRange ==
  /\ current = <<>> /\ next = <<>> /\ position = 0 /\ end = 0
  /\ back_current = <<>> /\ back_next = <<>>
  /\ range_start = 0 /\ range_end = 0
  /\ front = <<>> /\ back = <<>> /\ last = "none" /\ phase = "none"
  /\ producers = <<>>

\* The thresholds get_parallel_threshold() can return: what calibration
\* computes for the thread counts and timings on either side of its cases.
\* A step forks under these only when a has more than 20 000 bits (n beyond
\* 57 000); the lowered thresholds make steps of the indices explored here
\* fork: every step (0) or the later steps of a run (LowThreshold).
LowThreshold == 24

CalibratedThresholds ==
  {calibrate_parallel_threshold(cores, micros) :
     cores \in {1, 4, 8}, micros \in {100, 500, 2000}}

ParallelThresholds == CalibratedThresholds \cup {0, LowThreshold}

\* FFT_BIT_THRESHOLD, and the same lowered thresholds
FftThresholds == {FFT_BIT_THRESHOLD, 0, LowThreshold}

Algorithms ==
  {"fib_pair", "fibonacci", "fibonacci_fast_doubling", "fibonacci_parallel",
   "fibonacci_fft"}

TaskNames == {"c", "a_sq", "b_sq"}

\* A call of one of the entry points with an index of 0..MaxN
Init ==
  /\ alg \in Algorithms
  /\ arg \in 0..MaxN
  /\ threshold \in (IF alg = "fibonacci_parallel" THEN ParallelThresholds
                    ELSE IF alg = "fibonacci_fft" THEN FftThresholds
                    ELSE {0})
  /\ pc = alg
  /\ idx = 0 /\ fa = <<>> /\ fb = <<>> /\ tasks = <<>>
  /\ workspace = FftWorkspace_new /\ ret = <<>> /\ taken = {}
  /\ NoRequest /\ NoRange /\ NoPool /\ NoScope /\ NoProgress
  /\ NoRest

\* fibonacci_fast_doubling(n): the alias calls fibonacci(n)
CallAlias ==
  /\ pc = "fibonacci_fast_doubling"
  /\ pc' = "fibonacci"
  /\ UNCHANGED <<alg, arg, threshold, idx, fa, fb, tasks, workspace, ret,
                 taken>>
  /\ UNCHANGED adaptiveVars /\ UNCHANGED rangeVars
  /\ UNCHANGED poolVars /\ UNCHANGED scopeVars /\ UNCHANGED progressVars
  /\ UNCHANGED restVars

\* fibonacci(n): the table for n <= 186, else the call of fib_pair(n)
FibonacciEnter ==
  /\ pc = "fibonacci"
  /\ IF arg <= 186
     THEN /\ ret' = fibonacci_u128(arg)
          /\ pc' = "done"
          /\ taken' = taken \cup {"table"}
     ELSE /\ pc' = "fib_pair"
          /\ UNCHANGED <<ret, taken>>
  /\ UNCHANGED <<alg, arg, threshold, idx, fa, fb, tasks, workspace>>
  /\ UNCHANGED adaptiveVars /\ UNCHANGED rangeVars
  /\ UNCHANGED poolVars /\ UNCHANGED scopeVars /\ UNCHANGED progressVars
  /\ UNCHANGED restVars

\* What fib_pair's caller gets: the pair, or its .0 inside fibonacci
Returned(pair) == IF alg = "fib_pair" THEN pair ELSE pair[1]

\* fib_pair(n) up to its loop: the 128-bit path for n <= 185, the n == 0
\* return, else (a, b) = (1, 1) and the loop index below the highest bit
FibPairEnter ==
  /\ pc = "fib_pair"
  /\ IF pair_fits_u128(arg)
     THEN /\ ret' = Returned(fib_pair_u128(arg))
          /\ pc' = "done"
          /\ taken' = taken \cup {"table"}
          /\ UNCHANGED <<idx, fa, fb>>
     ELSE IF arg = 0
     THEN /\ ret' = Returned(<<<<>>, <<1>>>>)
          /\ pc' = "done"
          /\ UNCHANGED <<idx, fa, fb, taken>>
     ELSE /\ fa' = <<1>>
          /\ fb' = <<1>>
          /\ idx' = highest_bit(arg) - 1
          /\ pc' = "fib_pair_loop"
          /\ UNCHANGED <<ret, taken>>
  /\ UNCHANGED <<alg, arg, threshold, tasks, workspace>>
  /\ UNCHANGED adaptiveVars /\ UNCHANGED rangeVars
  /\ UNCHANGED poolVars /\ UNCHANGED scopeVars /\ UNCHANGED progressVars
  /\ UNCHANGED restVars

\* One iteration of fib_pair's loop
FibPairStep ==
  /\ pc = "fib_pair_loop"
  /\ idx >= 0
  /\ LET ab == fd_step(fa, fb, Bit(arg, idx))
     IN  fa' = ab[1] /\ fb' = ab[2]
  /\ idx' = idx - 1
  /\ taken' = taken \cup {"loop"}
  /\ UNCHANGED <<alg, arg, threshold, pc, tasks, workspace, ret>>
  /\ UNCHANGED adaptiveVars /\ UNCHANGED rangeVars
  /\ UNCHANGED poolVars /\ UNCHANGED scopeVars /\ UNCHANGED progressVars
  /\ UNCHANGED restVars

\* fib_pair's return of (a, b) after the last bit
FibPairReturn ==
  /\ pc = "fib_pair_loop"
  /\ idx < 0
  /\ ret' = Returned(<<fa, fb>>)
  /\ pc' = "done"
  /\ UNCHANGED <<alg, arg, threshold, idx, fa, fb, tasks, workspace, taken>>
  /\ UNCHANGED adaptiveVars /\ UNCHANGED rangeVars
  /\ UNCHANGED poolVars /\ UNCHANGED scopeVars /\ UNCHANGED progressVars
  /\ UNCHANGED restVars

\* fibonacci_parallel(n) up to its loop: the returns for n = 0, 1, 2, else
\* (a, b) = (0, 1) and the loop index at the highest bit
ParallelEnter ==
  /\ pc = "fibonacci_parallel"
  /\ IF arg <= 2
     THEN /\ ret' = (IF arg = 0 THEN <<>> ELSE <<1>>)
          /\ pc' = "done"
          /\ UNCHANGED <<idx, fa, fb>>
     ELSE /\ fa' = <<>>
          /\ fb' = <<1>>
          /\ idx' = highest_bit(arg)
          /\ pc' = "parallel_loop"
          /\ UNCHANGED ret
  /\ UNCHANGED <<alg, arg, threshold, tasks, workspace, taken>>
  /\ UNCHANGED adaptiveVars /\ UNCHANGED rangeVars
  /\ UNCHANGED poolVars /\ UNCHANGED scopeVars /\ UNCHANGED progressVars
  /\ UNCHANGED restVars

\* A step of fibonacci_parallel below the threshold: computed inline
ParallelStepInline ==
  /\ pc = "parallel_loop"
  /\ idx >= 0
  /\ ~par_forks(fa, threshold)
  /\ LET cd == par_inline_step(fa, fb)
         ab == advance(cd[1], cd[2], Bit(arg, idx))
     IN  fa' = ab[1] /\ fb' = ab[2]
  /\ idx' = idx - 1
  /\ taken' = taken \cup {"inline"}
  /\ UNCHANGED <<alg, arg, threshold, pc, tasks, workspace, ret>>
  /\ UNCHANGED adaptiveVars /\ UNCHANGED rangeVars
  /\ UNCHANGED poolVars /\ UNCHANGED scopeVars /\ UNCHANGED progressVars
  /\ UNCHANGED restVars

\* A step of fibonacci_parallel above the threshold: the nested rayon::join
\* hands the three multiplications to the pool
ParallelFork ==
  /\ pc = "parallel_loop"
  /\ idx >= 0
  /\ par_forks(fa, threshold)
  /\ pc' = "parallel_forked"
  /\ tasks' = <<>>
  /\ taken' = taken \cup {"fork"}
  /\ UNCHANGED <<alg, arg, threshold, idx, fa, fb, workspace, ret>>
  /\ UNCHANGED adaptiveVars /\ UNCHANGED rangeVars
  /\ UNCHANGED poolVars /\ UNCHANGED scopeVars /\ UNCHANGED progressVars
  /\ UNCHANGED restVars

\* One of the forked multiplications finishes; the pool decides which
ParallelTask ==
  /\ pc = "parallel_forked"
  /\ \E name \in TaskNames \ DOMAIN tasks :
       tasks' = [t \in DOMAIN tasks \cup {name} |->
                   IF t \in DOMAIN tasks THEN tasks[t]
                   ELSE run_task(t, fa, fb, tasks)]
  /\ UNCHANGED <<alg, arg, threshold, idx, fa, fb, pc, workspace, ret, taken>>
  /\ UNCHANGED adaptiveVars /\ UNCHANGED rangeVars
  /\ UNCHANGED poolVars /\ UNCHANGED scopeVars /\ UNCHANGED progressVars
  /\ UNCHANGED restVars

\* All three have finished: join returns and the step updates (a, b)
ParallelJoin ==
  /\ pc = "parallel_forked"
  /\ DOMAIN tasks = TaskNames
  /\ LET cd == par_join(tasks["c"], tasks["a_sq"], tasks["b_sq"])
         ab == advance(cd[1], cd[2], Bit(arg, idx))
     IN  fa' = ab[1] /\ fb' = ab[2]
  /\ idx' = idx - 1
  /\ tasks' = <<>>
  /\ pc' = "parallel_loop"
  /\ UNCHANGED <<alg, arg, threshold, workspace, ret, taken>>
  /\ UNCHANGED adaptiveVars /\ UNCHANGED rangeVars
  /\ UNCHANGED poolVars /\ UNCHANGED scopeVars /\ UNCHANGED progressVars
  /\ UNCHANGED restVars

\* fibonacci_parallel's return of a after the last bit
ParallelReturn ==
  /\ pc = "parallel_loop"
  /\ idx < 0
  /\ ret' = fa
  /\ pc' = "done"
  /\ UNCHANGED <<alg, arg, threshold, idx, fa, fb, tasks, workspace, taken>>
  /\ UNCHANGED adaptiveVars /\ UNCHANGED rangeVars
  /\ UNCHANGED poolVars /\ UNCHANGED scopeVars /\ UNCHANGED progressVars
  /\ UNCHANGED restVars

\* fibonacci_fft(n) up to its loop: the returns for n = 0, 1, else a fresh
\* workspace, (a, b) = (0, 1) and the loop index at the highest bit
FftEnter ==
  /\ pc = "fibonacci_fft"
  /\ IF arg <= 1
     THEN /\ ret' = (IF arg = 0 THEN <<>> ELSE <<1>>)
          /\ pc' = "done"
          /\ UNCHANGED <<idx, fa, fb, workspace>>
     ELSE /\ workspace' = FftWorkspace_new
          /\ fa' = <<>>
          /\ fb' = <<1>>
          /\ idx' = highest_bit(arg)
          /\ pc' = "fft_loop"
          /\ UNCHANGED ret
  /\ UNCHANGED <<alg, arg, threshold, tasks, taken>>
  /\ UNCHANGED adaptiveVars /\ UNCHANGED rangeVars
  /\ UNCHANGED poolVars /\ UNCHANGED scopeVars /\ UNCHANGED progressVars
  /\ UNCHANGED restVars

\* A step of fibonacci_fft above the threshold: the unified FFT step; the
\* run hangs in it if a carry loop of process_result does not end
FftStepUnified ==
  /\ pc = "fft_loop"
  /\ idx >= 0
  /\ fft_unified(fa, fb, threshold)
  /\ LET cdw == unified_fft_step(fa, fb, workspace)
         ab  == advance(cdw[1], cdw[2], Bit(arg, idx))
     IN  IF returns(cdw)
         THEN /\ fa' = ab[1] /\ fb' = ab[2] /\ workspace' = cdw[3]
              /\ idx' = idx - 1
              /\ pc' = pc
         ELSE /\ pc' = "hung"
              /\ UNCHANGED <<fa, fb, workspace, idx>>
  /\ taken' = taken \cup {"unified"}
  /\ UNCHANGED <<alg, arg, threshold, tasks, ret>>
  /\ UNCHANGED adaptiveVars /\ UNCHANGED rangeVars
  /\ UNCHANGED poolVars /\ UNCHANGED scopeVars /\ UNCHANGED progressVars
  /\ UNCHANGED restVars

\* A step of fibonacci_fft below the threshold: standard multiplication
FftStepStandard ==
  /\ pc = "fft_loop"
  /\ idx >= 0
  /\ ~fft_unified(fa, fb, threshold)
  /\ LET cd == fft_inline_step(fa, fb)
         ab == advance(cd[1], cd[2], Bit(arg, idx))
     IN  fa' = ab[1] /\ fb' = ab[2]
  /\ idx' = idx - 1
  /\ taken' = taken \cup {"standard"}
  /\ UNCHANGED <<alg, arg, threshold, pc, tasks, workspace, ret>>
  /\ UNCHANGED adaptiveVars /\ UNCHANGED rangeVars
  /\ UNCHANGED poolVars /\ UNCHANGED scopeVars /\ UNCHANGED progressVars
  /\ UNCHANGED restVars

\* fibonacci_fft's return of a after the last bit
FftReturn ==
  /\ pc = "fft_loop"
  /\ idx < 0
  /\ ret' = fa
  /\ pc' = "done"
  /\ UNCHANGED <<alg, arg, threshold, idx, fa, fb, tasks, workspace, taken>>
  /\ UNCHANGED adaptiveVars /\ UNCHANGED rangeVars
  /\ UNCHANGED poolVars /\ UNCHANGED scopeVars /\ UNCHANGED progressVars
  /\ UNCHANGED restVars

Next ==
  \/ CallAlias
  \/ FibonacciEnter
  \/ FibPairEnter
  \/ FibPairStep
  \/ FibPairReturn
  \/ ParallelEnter
  \/ ParallelStepInline
  \/ ParallelFork
  \/ ParallelTask
  \/ ParallelJoin
  \/ ParallelReturn
  \/ FftEnter
  \/ FftStepUnified
  \/ FftStepStandard
  \/ FftReturn

Spec == Init /\ [][Next]_vars

\* C1: whenever fib_pair(n) has returned, it returned exactly (F(n), F(n+1)),
\* and whenever fibonacci(n) or fibonacci_fast_doubling(n) has returned, it
\* returned exactly F(n), for the indices answered from the 128-bit values
\* (n <= 185 / 186) and for those answered by the doubling loop alike.
C1_FastDoublingExact ==
  pc = "done" =>
    /\ alg = "fib_pair" => ret = <<F(arg), F(arg + 1)>>
    /\ alg \in {"fibonacci", "fibonacci_fast_doubling"} => ret = F(arg)

\* A run of fib_pair that went through the doubling loop has returned
C1_Witness ==
  /\ pc = "done" /\ alg = "fib_pair" /\ arg > 185
  /\ "loop" \in taken /\ ret = <<F(arg), F(arg + 1)>>

\* C2: whenever fibonacci_parallel(n) or fibonacci_fft(n) has returned, under
\* any threshold and any completion order of the forked multiplications, it
\* returned the value fibonacci_fast_doubling(n) returns.
C2_AlgorithmsAgree ==
  pc = "done" /\ alg \in {"fibonacci_parallel", "fibonacci_fft"} =>
    ret = fibonacci_fast_doubling(arg)

\* A run of fibonacci_fft that mixed standard and unified FFT steps has
\* returned an index beyond the table
C2_Witness ==
  /\ pc = "done" /\ alg = "fibonacci_fft" /\ arg > 186
  /\ {"standard", "unified"} \subseteq taken
  /\ ret = fibonacci_fast_doubling(arg)

\* ------------------------------------------------------------------------
\* Adaptive selection with limits (algo/mod.rs, config.rs, lib.rs)
\* ------------------------------------------------------------------------

PARALLEL_CROSSOVER == 40000

FFT_CROSSOVER == 200000

\* limits::MAX_SAFE_N = 1_000_000_000_000
MAX_SAFE_N == FromDecimal(<<1000, 0>>)

\* limits::SAFE_MEMORY_BYTES = 8 * 1024 * 1024 * 1024
SAFE_MEMORY_BYTES ==
  BigMulSmall(BigMulSmall(BigMulSmall(<<8>>, 1024), 1024), 1024)

\* A value as a u64: the low 8 bytes
AsU64(x) == from_le_bytes(SubSeq(x, 1, IF Len(x) < 8 THEN Len(x) ELSE 8))

\* A variant of estimate_memory_bytes that multiplies in 64 bits
estimate_memory_bytes_u64(n) ==
  IF n = <<>> THEN <<>>
  ELSE BigDivSmall(AsU64(BigMulSmall(n, 95)), 1000)

\* estimate_memory_bytes(n): ((n as u128) * 95 / 1000) as u64
estimate_memory_bytes(n) ==
  IF n = <<>> THEN <<>>
  ELSE LET n_u128 == AsU128(n)
           bytes  == BigDivSmall(AsU128(BigMulSmall(n_u128, 95)), 1000)
       IN  AsU64(bytes)

\* A variant of select_algorithm whose first comparison includes the
\* crossover itself
select_algorithm_inclusive(n) ==
  IF BigLe(n, FromNat(PARALLEL_CROSSOVER)) THEN "fibonacci_fast_doubling"
  ELSE IF BigLt(n, FromNat(FFT_CROSSOVER)) THEN "fibonacci_parallel"
  ELSE "fibonacci_fft"

\* The algorithm try_fibonacci_adaptive calls for an n that passed the checks
select_algorithm(n) ==
  IF BigLt(n, FromNat(PARALLEL_CROSSOVER)) THEN "fibonacci_fast_doubling"
  ELSE IF BigLt(n, FromNat(FFT_CROSSOVER)) THEN "fibonacci_parallel"
  ELSE "fibonacci_fft"

\* Values are computed for indices up to MaxN; beyond, the value of a call is
\* left as this mark.
NotComputed == <<-3>>

\* What the call of an algorithm returns; fibonacci_parallel runs under any
\* threshold get_parallel_threshold() can return (the inline branch for
\* every step of these indices).
call_value(fn, n) ==
  IF BigLt(FromNat(MaxN), n) THEN NotComputed
  ELSE IF fn = "fibonacci_fast_doubling" THEN fibonacci_fast_doubling(ToNat(n))
  ELSE IF fn = "fibonacci_parallel"
       THEN fibonacci_parallel(ToNat(n), calibrate_parallel_threshold(4, 500))
  ELSE fibonacci_fft(ToNat(n))

\* Err(FibError::InputTooLarge { n, max })
InputTooLarge(n, max) ==
  [tag |-> "Err", error |-> "InputTooLarge", n |-> n, max |-> max,
   calls |-> <<>>]

\* Err(FibError::MemoryLimitExceeded { required_bytes, limit_bytes })
MemoryLimitExceeded(required_bytes, limit_bytes) ==
  [tag |-> "Err", error |-> "MemoryLimitExceeded",
   required_bytes |-> required_bytes, limit_bytes |-> limit_bytes,
   calls |-> <<>>]

\* Ok(fn(n)), with the algorithm calls made on the way
Ok(fn, n) ==
  [tag |-> "Ok", value |-> call_value(fn, n),
   calls |-> <<[fn |-> fn, n |-> n]>>]

\* A variant of try_fibonacci_adaptive that checks the memory estimate
\* before the index
try_fibonacci_adaptive_memory_first(n) ==
  LET estimated_bytes == estimate_memory_bytes(n)
  IN  IF BigLt(SAFE_MEMORY_BYTES, estimated_bytes)
      THEN MemoryLimitExceeded(estimated_bytes, SAFE_MEMORY_BYTES)
      ELSE IF BigLt(MAX_SAFE_N, n) THEN InputTooLarge(n, MAX_SAFE_N)
      ELSE Ok(select_algorithm(n), n)

\* try_fibonacci_adaptive(n)
try_fibonacci_adaptive(n) ==
  LET estimated_bytes == estimate_memory_bytes(n)
  IN  IF BigLt(MAX_SAFE_N, n) THEN InputTooLarge(n, MAX_SAFE_N)
      ELSE IF BigLt(SAFE_MEMORY_BYTES, estimated_bytes)
           THEN MemoryLimitExceeded(estimated_bytes, SAFE_MEMORY_BYTES)
      ELSE Ok(select_algorithm(n), n)

\* fibonacci_adaptive(n): try_fibonacci_adaptive(n).expect(...), which panics
\* on Err
expect(r, msg) ==
  IF r.tag = "Ok" THEN r
  ELSE [tag |-> "panic", message |-> msg, calls |-> <<>>]

fibonacci_adaptive(r) == expect(r, "Fibonacci calculation failed")

\* The name run_single_calculation puts in the label of an adaptive run
algo_used(n) ==
  IF BigLt(n, FromNat(1000000)) THEN "Fast Doubling" ELSE "FFT"

\* run_single_calculation(n, Algorithm::Adaptive, ..): the AlgorithmResult it
\* pushes, named format!("Adaptive (using {})", algo_used)
AlgorithmResult(r, n) ==
  IF r.tag = "Ok"
  THEN [tag |-> "AlgorithmResult",
        name |-> <<"Adaptive (using ", algo_used(n), ")">>,
        result |-> r.value, calls |-> r.calls]
  ELSE r

run_single_calculation(r, n) == AlgorithmResult(fibonacci_adaptive(r), n)

\* What a call of try_fibonacci_adaptive hands back: its value to a direct
\* caller, and to the CLI the value its fibonacci_adaptive goes on with
return_to(call, r) ==
  IF "from" \in DOMAIN call
  THEN [tag |-> "returned", from |-> call.from, r |-> r]
  ELSE r

\* The names the library and the CLI give the three algorithms
AlgorithmName(fn) ==
  IF fn = "fibonacci_fast_doubling" THEN "Fast Doubling"
  ELSE IF fn = "fibonacci_parallel" THEN "Parallel"
  ELSE "FFT"

\* The arguments explored: every index up to MaxRequest, and the values on
\* either side of each crossover, of each limit, of the CLI's 1 000 000 and
\* of the first n whose product n * 95 passes 2^64, up to u64::MAX.
MaxRequest == 48

U64_MAX == [k \in 1..8 |-> 255]

Requests ==
  {FromNat(k) : k \in 0..MaxRequest}
  \cup {FromNat(k) : k \in {185, 186, 187, MaxN, MaxN + 1}}
  \cup {FromNat(k) : k \in {39999, 40000, 40001, 199999, 200000, 200001}}
  \cup {FromNat(k) : k \in {999999, 1000000, 1000001}}
  \cup {FromDecimal(<<4, 0>>), FromDecimal(<<5, 0>>)}
  \cup {FromDecimal(g) :
          g \in {<<90, 420364136>>, <<90, 420364137>>, <<90, 420364138>>,
                 <<999, 999999999>>, <<1000, 0>>, <<1000, 1>>,
                 <<10000, 0>>, <<194176253, 407468964>>,
                 <<194176253, 407468965>>, <<9, 223372036, 854775807>>}}
  \cup {U64_MAX}

\* A call of try_fibonacci_adaptive or of estimate_memory_bytes
InitAdaptive ==
  /\ req \in Requests
  /\ result \in {[tag |-> "call", fn |-> "try_fibonacci_adaptive"],
                 [tag |-> "call", fn |-> "estimate_memory_bytes"],
                 [tag |-> "call", fn |-> "run_single_calculation"]}
  /\ NoRun /\ NoRange /\ NoPool /\ NoScope /\ NoProgress
  /\ NoRest

\* try_fibonacci_adaptive(n) returns, to a direct caller or to the CLI
TryFibonacciAdaptive ==
  /\ result.tag = "call" /\ result.fn = "try_fibonacci_adaptive"
  /\ result' = return_to(result, try_fibonacci_adaptive(req))
  /\ UNCHANGED req
  /\ UNCHANGED runVars /\ UNCHANGED rangeVars
  /\ UNCHANGED poolVars /\ UNCHANGED scopeVars /\ UNCHANGED progressVars
  /\ UNCHANGED restVars

\* estimate_memory_bytes(n) returns
EstimateMemoryBytes ==
  /\ result = [tag |-> "call", fn |-> "estimate_memory_bytes"]
  /\ result' = [tag |-> "bytes", bytes |-> estimate_memory_bytes(req)]
  /\ UNCHANGED req
  /\ UNCHANGED runVars /\ UNCHANGED rangeVars
  /\ UNCHANGED poolVars /\ UNCHANGED scopeVars /\ UNCHANGED progressVars
  /\ UNCHANGED restVars

\* The CLI's adaptive calculation of F(n) calls fibonacci_adaptive(n), which
\* calls try_fibonacci_adaptive(n)
CallFibonacciAdaptive ==
  /\ result = [tag |-> "call", fn |-> "run_single_calculation"]
  /\ result' = [tag |-> "call", fn |-> "try_fibonacci_adaptive",
                from |-> "run_single_calculation"]
  /\ UNCHANGED req
  /\ UNCHANGED runVars /\ UNCHANGED rangeVars
  /\ UNCHANGED poolVars /\ UNCHANGED scopeVars /\ UNCHANGED progressVars
  /\ UNCHANGED restVars

\* The CLI's adaptive calculation of F(n) returns, or panics
RunSingleCalculation ==
  /\ result.tag = "returned" /\ result.from = "run_single_calculation"
  /\ result' = run_single_calculation(result.r, req)
  /\ UNCHANGED req
  /\ UNCHANGED runVars /\ UNCHANGED rangeVars
  /\ UNCHANGED poolVars /\ UNCHANGED scopeVars /\ UNCHANGED progressVars
  /\ UNCHANGED restVars

\* x >> s, sixteen bits at a time
RECURSIVE BigShr(_, _)
BigShr(x, s) ==
  IF s = 0 THEN x
  ELSE IF s > 16 THEN BigShr(BigDivSmall(x, 65536), s - 16)
  ELSE BigDivSmall(x, 2 ^ s)

\* bit_len of F(k) without the value: those of F(0)..F(3) = 0, 1, 1, 2, and
\* floor(k * log2(phi) - log2(sqrt 5)) + 1 beyond, the logarithms to fifteen
\* decimals
fib_bit_len(k) ==
  LET scaled == BigSub(BigMul(k, FromDecimal(<<694241, 913630617>>)),
                       FromDecimal(<<1160964, 47443681>>))
      whole  == BigDivSmall(BigDivSmall(BigDivSmall(scaled, 100000), 100000),
                            100000)
  IN  IF k = <<>> THEN <<>>
      ELSE IF BigLe(k, <<2>>) THEN <<1>>
      ELSE IF k = <<3>> THEN <<2>>
      ELSE BigAdd(whole, <<1>>)

\* The length of ubig_to_digits(v, base_bits) for a v of the given bit length
digits_len(bits, base_bits) ==
  IF bits = <<>> THEN <<1>>
  ELSE BigDivSmall(BigAdd(bits, FromNat(base_bits - 1)), base_bits)

\* unified_fft_step's choice of base_bits and fft_size (as its log2) for
\* operands of the given bit lengths
unified_fft_sizes(a_bits, b_bits) ==
  LET approx_bits == BigAdd(a_bits, b_bits)
      base_bits   == IF BigLt(FromNat(MASSIVE_THRESHOLD), approx_bits)
                     THEN BASE_BITS_MASSIVE ELSE BASE_BITS_DEFAULT
      result_len  == BigAdd(digits_len(a_bits, base_bits),
                            digits_len(b_bits, base_bits))
  IN  [approx_bits |-> approx_bits, base_bits |-> base_bits,
       result_len |-> result_len,
       log2_fft_size |-> bit_len(BigSub(result_len, <<1>>))]

\* The iteration i of fibonacci_fft(n)'s loop, entered with (F(k), F(k+1)),
\* k = n >> (i + 1), for an n the adaptive entry point handed to it: the
\* sizes its unified step chooses, or the standard multiplication
FftLoopIteration ==
  /\ result.tag = "Ok"
  /\ result.calls[1].fn = "fibonacci_fft"
  /\ \E i \in 0..(bit_len(req) - 1) :
       LET k      == BigShr(req, i + 1)
           a_bits == fib_bit_len(k)
           b_bits == fib_bit_len(BigAdd(k, <<1>>))
       IN  result' =
             IF \/ BigLt(FromNat(FFT_BIT_THRESHOLD), a_bits)
                \/ BigLt(FromNat(FFT_BIT_THRESHOLD), b_bits)
             THEN [tag |-> "unified_fft_step", i |-> i,
                   sizes |-> unified_fft_sizes(a_bits, b_bits)]
             ELSE [tag |-> "standard", i |-> i]
  /\ UNCHANGED req
  /\ UNCHANGED runVars /\ UNCHANGED rangeVars
  /\ UNCHANGED poolVars /\ UNCHANGED scopeVars /\ UNCHANGED progressVars
  /\ UNCHANGED restVars

NextAdaptive ==
  \/ TryFibonacciAdaptive
  \/ EstimateMemoryBytes
  \/ CallFibonacciAdaptive
  \/ RunSingleCalculation
  \/ FftLoopIteration

SpecAdaptive == InitAdaptive /\ [][NextAdaptive]_vars

\* The limits as the specification states them: 10^12 and 8 * 2^30
TenTo12 == FromDecimal(<<1000, 0>>)

EightGiB == FromDecimal(<<8, 589934592>>)

\* floor(n * 95 / 1000), characterised without division:
\* 1000 * q <= 95 * n < 1000 * (q + 1)
IsFloorOf95Per1000(q, n) ==
  /\ BigLe(BigMulSmall(q, 1000), BigMulSmall(n, 95))
  /\ BigLt(BigMulSmall(n, 95), BigMulSmall(BigAdd(q, <<1>>), 1000))

\* Whether a request passes both limit checks, as the specification states
\* them
PassesLimits(n) ==
  /\ BigLe(n, TenTo12)
  /\ \E q \in {estimate_memory_bytes(n)} :
       IsFloorOf95Per1000(q, n) /\ BigLe(q, EightGiB)

\* C3: a request that passes both limit checks returns Ok with the result of
\* exactly one algorithm call on n: Fast Doubling when n < 40 000, Parallel
\* Doubling when 40 000 <= n < 200 000, FFT Doubling when n >= 200 000; for
\* the indices whose value is computed the value is F(n).
C3_DispatchByThreshold ==
  result.tag \in {"Ok", "Err"} /\ PassesLimits(req) =>
    /\ result.tag = "Ok"
    /\ result.calls =
         <<[fn |-> IF BigLt(req, FromNat(40000))
                   THEN "fibonacci_fast_doubling"
                   ELSE IF BigLt(req, FromNat(200000))
                        THEN "fibonacci_parallel"
                        ELSE "fibonacci_fft",
            n  |-> req]>>
    /\ BigLe(req, FromNat(MaxN)) => result.value = F(ToNat(req))

\* The call with n = 40 000 has returned the result of Parallel Doubling
C3_Witness ==
  /\ req = FromNat(40000)
  /\ result.tag = "Ok"
  /\ result.calls = <<[fn |-> "fibonacci_parallel", n |-> req]>>

\* C4: a request with n > 10^12 returns InputTooLarge{n, max: 10^12} with the
\* n it was given, never MemoryLimitExceeded, and calls no algorithm.
C4_InputTooLarge ==
  result.tag \in {"Ok", "Err"} /\ BigLt(TenTo12, req) =>
    /\ result.tag = "Err"
    /\ result.error = "InputTooLarge"
    /\ result.n = req
    /\ result.max = TenTo12
    /\ result.calls = <<>>

\* The call with n = 10^13, whose estimate also exceeds the memory limit,
\* has returned InputTooLarge
C4_Witness ==
  /\ req = FromDecimal(<<10000, 0>>)
  /\ BigLt(EightGiB, estimate_memory_bytes(req))
  /\ result.tag = "Err" /\ result.error = "InputTooLarge"

\* C5: a request with n <= 10^12 returns MemoryLimitExceeded{required_bytes:
\* floor(n*95/1000), limit_bytes: 8*2^30} exactly when floor(n*95/1000) >
\* 8*2^30, and Ok otherwise; and estimate_memory_bytes(n) returns
\* floor(n*95/1000) for every 64-bit n, 0 for n = 0.
C5_MemoryLimit ==
  /\ result.tag \in {"Ok", "Err"} /\ BigLe(req, TenTo12) =>
       \E q \in {IF result.tag = "Err" THEN result.required_bytes
                 ELSE estimate_memory_bytes(req)} :
         /\ IsFloorOf95Per1000(q, req)
         /\ IF BigLt(EightGiB, q)
            THEN result = [tag |-> "Err", error |-> "MemoryLimitExceeded",
                           required_bytes |-> q, limit_bytes |-> EightGiB,
                           calls |-> <<>>]
            ELSE result.tag = "Ok"
  /\ result.tag = "bytes" =>
       /\ IsFloorOf95Per1000(result.bytes, req)
       /\ req = <<>> => result.bytes = <<>>

\* The call with the smallest n whose estimate exceeds 8 GiB has returned
\* MemoryLimitExceeded
C5_Witness ==
  /\ req = FromDecimal(<<90, 420364137>>)
  /\ result.tag = "Err" /\ result.error = "MemoryLimitExceeded"
  /\ result.required_bytes = FromDecimal(<<8, 589934593>>)

\* ------------------------------------------------------------------------
\* FibRange and its parallel producer (iterators.rs, lib.rs)
\* ------------------------------------------------------------------------

None == <<"None">>

Some(v) == <<"Some", v>>

\* FibRange::new(start, end)
FibRange_new(start, stop) ==
  IF start >= stop
  THEN [current |-> <<>>, next |-> <<>>, position |-> 0, end |-> 0,
        back_current |-> <<>>, back_next |-> <<>>]
  ELSE LET front_pair == call_fib_pair(start)
           back_pair  == IF stop > 0 THEN call_fib_pair(stop - 1)
                         ELSE <<<<>>, <<>>>>
       IN  [current |-> front_pair[1], next |-> front_pair[2],
            position |-> start, end |-> stop,
            back_current |-> back_pair[1], back_next |-> back_pair[2]]

\* A variant of next that returns the second register
FibRange_next_ahead(self) ==
  IF self.position >= self.end THEN <<self, None>>
  ELSE <<[self EXCEPT !.current = self.next,
                      !.next = BigAdd(self.current, self.next),
                      !.position = self.position + 1],
         Some(self.next)>>

\* Iterator::next: <<the FibRange after the call, the Option returned>>
FibRange_next(self) ==
  IF self.position >= self.end THEN <<self, None>>
  ELSE LET new_next == BigAdd(self.current, self.next)
       IN  <<[self EXCEPT !.current = self.next,
                          !.next = new_next,
                          !.position = self.position + 1],
             Some(self.current)>>

\* A variant of size_hint that reports only the lower bound
size_hint_lower_only(self) ==
  LET remaining == IF self.end >= self.position
                   THEN self.end - self.position ELSE 0
  IN  <<remaining, None>>

\* Iterator::size_hint
size_hint(self) ==
  LET remaining == IF self.end >= self.position
                   THEN self.end - self.position ELSE 0
  IN  <<remaining, Some(remaining)>>

\* A variant of next_back that yields the second register and steps the pair
\* forward
FibRange_next_back_from_end(self) ==
  IF self.position >= self.end THEN <<self, None>>
  ELSE <<[self EXCEPT !.end = self.end - 1,
                      !.back_current = self.back_next,
                      !.back_next = BigAdd(self.back_current, self.back_next)],
         Some(self.back_next)>>

\* A variant of next_back that leaves end where it is
FibRange_next_back_keep_end(self) ==
  IF self.position >= self.end THEN <<self, None>>
  ELSE <<[self EXCEPT !.back_current =
                        BigSub(self.back_next, self.back_current),
                      !.back_next = self.back_current],
         Some(self.back_current)>>

\* A variant of next_back whose emptiness check lets position = end through
FibRange_next_back_past_end(self) ==
  IF self.position > self.end THEN <<self, None>>
  ELSE <<[self EXCEPT !.end = self.end - 1,
                      !.back_current =
                        BigSub(self.back_next, self.back_current),
                      !.back_next = self.back_current],
         Some(self.back_current)>>

\* DoubleEndedIterator::next_back: <<the FibRange after, the Option returned>>
FibRange_next_back(self) ==
  IF self.position >= self.end THEN <<self, None>>
  ELSE LET new_back_current == BigSub(self.back_next, self.back_current)
       IN  <<[self EXCEPT !.end = self.end - 1,
                          !.back_current = new_back_current,
                          !.back_next = self.back_current],
             Some(self.back_current)>>

\* Iterator::collect over a FibRange: next() until it returns None
RECURSIVE collect(_)
collect(self) ==
  LET called == FibRange_next(self)
  IN  IF called[2] = None THEN <<>>
      ELSE <<called[2][2]>> \o collect(called[1])

\* IntoParallelIterator::into_par_iter and ParFibRange::with_producer: the
\* FibProducer over what is left of the range
into_par_iter(self) == [start |-> self.position, end |-> self.end]

\* IndexedParallelIterator::len, the largest index rayon splits a producer at
producer_len(producer) ==
  IF producer.end >= producer.start THEN producer.end - producer.start ELSE 0

\* A variant of split_at that takes the index as the absolute middle
split_at_absolute(producer, index) ==
  <<[start |-> producer.start, end |-> index],
    [start |-> index, end |-> producer.end]>>

\* Producer::split_at
split_at(producer, index) ==
  LET mid == producer.start + index
  IN  <<[start |-> producer.start, end |-> mid],
        [start |-> mid, end |-> producer.end]>>

\* Producer::into_iter
into_iter(producer) == FibRange_new(producer.start, producer.end)

\* The FibRange the variables hold
this ==
  [current |-> current, next |-> next, position |-> position, end |-> end,
   back_current |-> back_current, back_next |-> back_next]

\* The variables hold the FibRange self
Becomes(self) ==
  /\ current' = self.current
  /\ next' = self.next
  /\ position' = self.position
  /\ end' = self.end
  /\ back_current' = self.back_current
  /\ back_next' = self.back_next

\* The ranges explored: starts at the beginning of the sequence and on either
\* side of the 128-bit boundary of fib_pair, up to MaxLen items, and ends
\* below the start.
MaxLen == 4

MaxLeaves == 3

RangeStarts == {0, 1, 2, 7, 183, 184, 185, 186}

RangeEnds(start) ==
  {start + d : d \in 0..MaxLen} \cup {e \in {0, 1, 5} : e < start}

\* A call of FibRange::new or of fib_range_parallel with its arguments
InitRange ==
  /\ range_start \in RangeStarts
  /\ range_end \in RangeEnds(range_start)
  /\ phase \in {"FibRange::new", "fib_range_parallel"}
  /\ current = <<>> /\ next = <<>> /\ position = 0 /\ end = 0
  /\ back_current = <<>> /\ back_next = <<>>
  /\ front = <<>> /\ back = <<>>
  /\ last = [call |-> "none"]
  /\ producers = <<>>
  /\ NoRun /\ NoRequest /\ NoPool /\ NoScope /\ NoProgress
  /\ NoRest

\* FibRange::new(start, end) returns the iterator
New ==
  /\ phase = "FibRange::new"
  /\ Becomes(FibRange_new(range_start, range_end))
  /\ phase' = "iterating"
  /\ last' = [call |-> "new"]
  /\ UNCHANGED <<range_start, range_end, front, back, producers>>
  /\ UNCHANGED runVars /\ UNCHANGED adaptiveVars
  /\ UNCHANGED poolVars /\ UNCHANGED scopeVars /\ UNCHANGED progressVars
  /\ UNCHANGED restVars

\* A call of next()
CallNext ==
  /\ phase = "iterating"
  /\ LET called == FibRange_next(this)
     IN  /\ Becomes(called[1])
         /\ last' = [call |-> "next", result |-> called[2]]
         /\ front' = IF called[2] = None THEN front
                     ELSE Append(front, called[2][2])
  /\ UNCHANGED <<range_start, range_end, back, phase, producers>>
  /\ UNCHANGED runVars /\ UNCHANGED adaptiveVars
  /\ UNCHANGED poolVars /\ UNCHANGED scopeVars /\ UNCHANGED progressVars
  /\ UNCHANGED restVars

\* A call of next_back()
CallNextBack ==
  /\ phase = "iterating"
  /\ LET called == FibRange_next_back(this)
     IN  /\ Becomes(called[1])
         /\ last' = [call |-> "next_back", result |-> called[2]]
         /\ back' = IF called[2] = None THEN back
                    ELSE Append(back, called[2][2])
  /\ UNCHANGED <<range_start, range_end, front, phase, producers>>
  /\ UNCHANGED runVars /\ UNCHANGED adaptiveVars
  /\ UNCHANGED poolVars /\ UNCHANGED scopeVars /\ UNCHANGED progressVars
  /\ UNCHANGED restVars

\* A call of size_hint()
CallSizeHint ==
  /\ phase = "iterating"
  /\ last' = [call |-> "size_hint", result |-> size_hint(this)]
  /\ UNCHANGED <<current, next, position, end, back_current, back_next,
                 range_start, range_end, front, back, phase, producers>>
  /\ UNCHANGED runVars /\ UNCHANGED adaptiveVars
  /\ UNCHANGED poolVars /\ UNCHANGED scopeVars /\ UNCHANGED progressVars
  /\ UNCHANGED restVars

\* into_par_iter() on the FibRange, as it is: rayon gets the root producer
IntoParIter ==
  /\ phase = "iterating"
  /\ producers' = <<into_par_iter(this)>>
  /\ phase' = "splitting"
  /\ last' = [call |-> "into_par_iter"]
  /\ UNCHANGED <<current, next, position, end, back_current, back_next,
                 range_start, range_end, front, back>>
  /\ UNCHANGED runVars /\ UNCHANGED adaptiveVars
  /\ UNCHANGED poolVars /\ UNCHANGED scopeVars /\ UNCHANGED progressVars
  /\ UNCHANGED restVars

\* fib_range_parallel(start, end, _chunk_size): the empty Vec when
\* start >= end, else FibRange::new(start, end).into_par_iter() to collect
FibRangeParallel ==
  /\ phase = "fib_range_parallel"
  /\ IF range_start >= range_end
     THEN /\ last' = [call |-> "fib_range_parallel", result |-> <<>>]
          /\ phase' = "returned"
          /\ UNCHANGED <<current, next, position, end, back_current,
                         back_next, producers>>
     ELSE /\ Becomes(FibRange_new(range_start, range_end))
          /\ producers' = <<into_par_iter(FibRange_new(range_start,
                                                       range_end))>>
          /\ phase' = "splitting"
          /\ last' = [call |-> "fib_range_parallel"]
  /\ UNCHANGED <<range_start, range_end, front, back>>
  /\ UNCHANGED runVars /\ UNCHANGED adaptiveVars
  /\ UNCHANGED poolVars /\ UNCHANGED scopeVars /\ UNCHANGED progressVars
  /\ UNCHANGED restVars

\* Whether a leaf is still a producer (no items yet)
IsProducer(leaf) == "items" \notin DOMAIN leaf

\* rayon splits one of the producers at an index within its length
SplitAt ==
  /\ phase = "splitting"
  /\ Len(producers) < MaxLeaves
  /\ \E k \in DOMAIN producers :
       /\ IsProducer(producers[k])
       /\ \E index \in 0..producer_len(producers[k]) :
            LET halves == split_at(producers[k], index)
            IN  producers' = SubSeq(producers, 1, k - 1) \o halves
                             \o SubSeq(producers, k + 1, Len(producers))
  /\ UNCHANGED <<current, next, position, end, back_current, back_next,
                 range_start, range_end, front, back, last, phase>>
  /\ UNCHANGED runVars /\ UNCHANGED adaptiveVars
  /\ UNCHANGED poolVars /\ UNCHANGED scopeVars /\ UNCHANGED progressVars
  /\ UNCHANGED restVars

\* rayon folds one of the producers: into_iter(), then every item in order
FoldLeaf ==
  /\ phase = "splitting"
  /\ \E k \in DOMAIN producers :
       /\ IsProducer(producers[k])
       /\ producers' =
            [producers EXCEPT ![k] =
               [start |-> producers[k].start, end |-> producers[k].end,
                items |-> collect(into_iter(producers[k]))]]
  /\ UNCHANGED <<current, next, position, end, back_current, back_next,
                 range_start, range_end, front, back, last, phase>>
  /\ UNCHANGED runVars /\ UNCHANGED adaptiveVars
  /\ UNCHANGED poolVars /\ UNCHANGED scopeVars /\ UNCHANGED progressVars
  /\ UNCHANGED restVars

\* The items of the leaves from index lo on, in index order
RECURSIVE Concat(_, _)
Concat(leaves, lo) ==
  IF lo > Len(leaves) THEN <<>>
  ELSE leaves[lo].items \o Concat(leaves, lo + 1)

\* Every producer has been folded: collect() returns the items in index order
Collect ==
  /\ phase = "splitting"
  /\ \A k \in DOMAIN producers : ~IsProducer(producers[k])
  /\ last' = [call |-> IF last.call = "fib_range_parallel"
                       THEN "fib_range_parallel" ELSE "collect",
              result |-> Concat(producers, 1)]
  /\ phase' = "returned"
  /\ UNCHANGED <<current, next, position, end, back_current, back_next,
                 range_start, range_end, front, back, producers>>
  /\ UNCHANGED runVars /\ UNCHANGED adaptiveVars
  /\ UNCHANGED poolVars /\ UNCHANGED scopeVars /\ UNCHANGED progressVars
  /\ UNCHANGED restVars

NextRange ==
  \/ New
  \/ CallNext
  \/ CallNextBack
  \/ CallSizeHint
  \/ IntoParIter
  \/ FibRangeParallel
  \/ SplitAt
  \/ FoldLeaf
  \/ Collect

SpecRange == InitRange /\ [][NextRange]_vars

\* max(0, end - start) for the arguments the range was built from
RangeLen == IF range_end > range_start THEN range_end - range_start ELSE 0

\* F(lo), ..., F(lo + count - 1)
FibSeq(lo, count) == [j \in 1..count |-> F(lo + j - 1)]

\* C6: under forward iteration alone (no item taken from the back), the i-th
\* item yielded (from 0) is the value Fast Doubling computes for start + i,
\* and next() returns None exactly when max(0, end - start) items have been
\* yielded: never more items, never fewer, none at all iff start >= end.
C6_ForwardIteration ==
  phase = "iterating" /\ back = <<>> =>
    /\ \A j \in DOMAIN front :
         front[j] = fibonacci_fast_doubling(range_start + j - 1)
    /\ Len(front) <= RangeLen
    /\ FibRange_next(this)[2] = None <=> Len(front) = RangeLen
    /\ last.call = "next" /\ last.result = None => Len(front) = RangeLen
    /\ last.call = "next" /\ front = <<>> => range_start >= range_end

\* A range that starts below the 128-bit boundary and ends above it has been
\* iterated forward to its end, and next() has returned None
C6_Witness ==
  /\ phase = "iterating" /\ back = <<>>
  /\ range_start = 184 /\ range_end = 184 + MaxLen
  /\ Len(front) = MaxLen
  /\ last.call = "next" /\ last.result = None

\* C7: under reverse iteration alone (no item taken from the front) of a
\* range with start < end, the items yielded are F(end-1), F(end-2), ... in
\* that order, and next_back() returns None exactly when end - start items
\* have been yielded.
C7_ReverseIteration ==
  phase = "iterating" /\ front = <<>> /\ range_start < range_end =>
    /\ \A j \in DOMAIN back : back[j] = F(range_end - j)
    /\ Len(back) <= range_end - range_start
    /\ FibRange_next_back(this)[2] = None
         <=> Len(back) = range_end - range_start
    /\ last.call = "next_back" /\ last.result = None
         => Len(back) = range_end - range_start

\* A range from index 0 has been iterated backwards down to F(0), and
\* next_back() has returned None
C7_Witness ==
  /\ phase = "iterating" /\ front = <<>>
  /\ range_start = 0 /\ range_end = MaxLen
  /\ Len(back) = MaxLen /\ back[MaxLen] = <<>>
  /\ last.call = "next_back" /\ last.result = None

\* C8: under any interleaving of next() and next_back(), the j-th item from
\* the front is F(start + j) and the j-th item from the back is
\* F(end - 1 - j); no index is yielded twice; a call returns None only once
\* every index of [start, end) has been yielded, and from then on a call from
\* either side returns None.
C8_MixedIteration ==
  phase = "iterating" =>
    /\ front = FibSeq(range_start, Len(front))
    /\ \A j \in DOMAIN back : back[j] = F(range_end - j)
    /\ Len(front) + Len(back) <= RangeLen
    /\ FibRange_next(this)[2] = None <=> Len(front) + Len(back) = RangeLen
    /\ FibRange_next_back(this)[2] = None
         <=> Len(front) + Len(back) = RangeLen
    /\ last.call \in {"next", "next_back"} /\ last.result = None
         => Len(front) + Len(back) = RangeLen

\* Items have been taken from both ends until the ends met, and a further
\* call has returned None
C8_Witness ==
  /\ phase = "iterating"
  /\ Len(front) >= 2 /\ Len(back) >= 2
  /\ Len(front) + Len(back) = RangeLen
  /\ last.call = "next" /\ last.result = None

\* C9: after any calls of next() and next_back(), size_hint() returns
\* (r, Some(r)) with r = max(0, end - position), and r is the number of items
\* the iterator still yields: what collecting it now gives, and what is left
\* of the range after the items already yielded.
C9_SizeHintExact ==
  phase = "iterating" =>
    \E r \in {IF end > position THEN end - position ELSE 0} :
      /\ size_hint(this) = <<r, Some(r)>>
      /\ last.call = "size_hint" => last.result = <<r, Some(r)>>
      /\ r = Len(collect(this))
      /\ r = RangeLen - Len(front) - Len(back)

\* size_hint() has been called on a range consumed from both ends with items
\* left
C9_Witness ==
  /\ phase = "iterating"
  /\ front # <<>> /\ back # <<>>
  /\ last.call = "size_hint" /\ last.result[1] > 0

\* What a parallel collection of the range returns: the items the range had
\* left when it was turned into a parallel iterator
Remaining ==
  FibSeq(range_start + Len(front), RangeLen - Len(front) - Len(back))

\* The producers cover what the range had left, in index order and without
\* gap or overlap
Tiled ==
  /\ producers[1].start = position
  /\ producers[Len(producers)].end = end
  /\ \A k \in DOMAIN producers :
       /\ producers[k].start <= producers[k].end
       /\ k < Len(producers) => producers[k].end = producers[k + 1].start

\* C10: every split_at(index) replaces a producer [start, end) by exactly
\* [start, start+index) and [start+index, end), whatever the tree of splits
\* (index 0 and the full length included) and however much of the FibRange
\* had been consumed; the producers always cover the range in order, each
\* folded producer holds F(start), ..., F(end-1) of its sub-range, the
\* collection returns the sequential sequence, and fib_range_parallel returns
\* F(start), ..., F(end-1), the empty sequence when start >= end.
C10_ProducerSplit ==
  /\ [](phase \in {"splitting", "returned"} =>
          /\ producers # <<>> => Tiled
          /\ \A k \in DOMAIN producers :
               ~IsProducer(producers[k]) =>
                 producers[k].items =
                   FibSeq(producers[k].start,
                          producers[k].end - producers[k].start)
          /\ phase = "returned" => last.result = Remaining
          /\ phase = "returned" /\ last.call = "fib_range_parallel" =>
               last.result = FibSeq(range_start, RangeLen))
  /\ [][Len(producers') = Len(producers) + 1 /\ producers # <<>> =>
          \E k \in DOMAIN producers :
            \E index \in 0..(producers[k].end - producers[k].start) :
              producers' =
                SubSeq(producers, 1, k - 1)
                \o <<[start |-> producers[k].start,
                      end |-> producers[k].start + index],
                     [start |-> producers[k].start + index,
                      end |-> producers[k].end]>>
                \o SubSeq(producers, k + 1, Len(producers))]_vars

\* A FibRange consumed from both ends has been turned into a parallel
\* iterator, split down to MaxLeaves producers, one of them empty, and
\* collected
C10_Witness ==
  /\ phase = "returned" /\ last.call = "collect"
  /\ front # <<>> /\ back # <<>>
  /\ Len(producers) = MaxLeaves
  /\ \E k \in DOMAIN producers : producers[k].start = producers[k].end
  /\ Len(last.result) >= 2
  /\ last.result = Remaining

\* ------------------------------------------------------------------------
\* The calibrated threshold and the warm-up (parallel.rs, lib.rs, fft.rs)
\* ------------------------------------------------------------------------

\* The threads calling in, the calls they make between them, and the pool
\* sizes explored when the pool's workers are followed
NumCallers == 2

MaxCalls == 3

\* The pool sizes explored when only the threshold is fetched: values on
\* either side of 4 and of 8
CoreCounts == {1, 2, 3, 4, 5, 7, 8, 9, 16}

MaxPool == 3

\* What Instant::elapsed().as_micros() can give for F(10 000): values on
\* either side of 200 and of 1000
Micros == {199, 200, 1000, 1001}

\* A variant of get_or_init that tests the cell and then initialises it,
\* without excluding a second initialiser
get_or_init_unguarded(state) ==
  IF state = "complete" THEN "get" ELSE "init"

\* PARALLEL_THRESHOLD.get_or_init(..), by the state of the cell's Once: read
\* the value, run the closure, or park until the running closure has stored
get_or_init(state) ==
  IF state = "complete" THEN "get"
  ELSE IF state = "incomplete" THEN "init"
  ELSE "wait"

\* A variant of prewarm_fft_planner that builds a new planner at every call
prewarm_fft_planner_fresh(planners, t) == [planners EXCEPT ![t] = @ + 1]

\* prewarm_fft_planner() on thread t: FFT_PLANNER.with(..) builds the
\* thread's planner at its first access and borrows it afterwards
prewarm_fft_planner(planners, t) ==
  [planners EXCEPT ![t] = IF @ = 0 THEN 1 ELSE @]

\* The thread a caller runs on: a worker of the pool, or a thread of its own
thread_of(r, c) == IF r.home = 0 THEN 0 - c ELSE r.home

\* A caller that has made no call yet
new_caller(home) ==
  [home |-> home, pc |-> "idle", op |-> "none", seen |-> <<>>,
   finished |-> <<>>, parked |-> FALSE, a_done |-> FALSE, items |-> 0]

\* get_parallel_threshold() has its value v: it returns it, and
\* prewarm_system goes on to rayon::join, whose second closure dispatches
\* one touch per pool thread when there is more than one
got_threshold(r, v, threads) ==
  IF r.op = "get_parallel_threshold"
  THEN [r EXCEPT !.seen = Append(@, v), !.pc = "idle",
                 !.finished = Append(@, r.op)]
  ELSE [r EXCEPT !.seen = Append(@, v), !.pc = "join", !.a_done = FALSE,
                 !.items = IF threads > 1 THEN threads ELSE 0]

\* Callers on threads outside the pool (as main is), any pool size
InitThreshold ==
  /\ num_threads \in CoreCounts
  /\ once = "incomplete"
  /\ PARALLEL_THRESHOLD = None
  /\ calibrations = <<>>
  /\ callers = [c \in 1..NumCallers |-> new_caller(0)]
  /\ FFT_PLANNER = [t \in (1..num_threads) \cup {0 - c : c \in 1..NumCallers}
                      |-> 0]
  /\ NoRun /\ NoRequest /\ NoRange /\ NoScope /\ NoProgress
  /\ NoRest

\* The threads that call prewarm_system
WarmUpThreads == {1, 2}

\* Each caller is a thread outside the pool (as main is) or the pool's worker
\* of its own number, in a small pool
InitPrewarm ==
  /\ num_threads \in 1..MaxPool
  /\ once = "incomplete"
  /\ PARALLEL_THRESHOLD = None
  /\ calibrations = <<>>
  /\ \E homes \in [WarmUpThreads -> 0..num_threads] :
       /\ \A c \in WarmUpThreads : homes[c] \in {0, c}
       /\ callers = [c \in WarmUpThreads |-> new_caller(homes[c])]
  /\ FFT_PLANNER = [t \in (1..num_threads) \cup {0 - c : c \in WarmUpThreads}
                      |-> 0]
  /\ NoRun /\ NoRequest /\ NoRange /\ NoScope /\ NoProgress
  /\ NoRest

\* The calls made so far, returned or not
calls_made(all) ==
  LET RECURSIVE sum(_)
      sum(S) ==
        IF S = {} THEN 0
        ELSE LET c == CHOOSE x \in S : TRUE
             IN  Len(all[c].finished) + (IF all[c].pc = "idle" THEN 0 ELSE 1)
                 + sum(S \ {c})
  IN  sum(DOMAIN all)

OutsidePool ==
  /\ UNCHANGED runVars /\ UNCHANGED adaptiveVars /\ UNCHANGED rangeVars
  /\ UNCHANGED scopeVars /\ UNCHANGED progressVars
  /\ UNCHANGED restVars

\* A thread calls get_parallel_threshold()
CallGetParallelThreshold ==
  /\ \E c \in DOMAIN callers :
       /\ callers[c].pc = "idle"
       /\ calls_made(callers) < MaxCalls
       /\ callers' = [callers EXCEPT ![c].pc = "get_or_init",
                                     ![c].op = "get_parallel_threshold"]
  /\ UNCHANGED <<num_threads, once, PARALLEL_THRESHOLD, calibrations,
                 FFT_PLANNER>>
  /\ OutsidePool

\* A thread calls prewarm_system(), which first calls
\* get_parallel_threshold()
CallPrewarmSystem ==
  /\ \E c \in DOMAIN callers :
       /\ callers[c].pc = "idle"
       /\ calls_made(callers) < MaxCalls
       /\ callers' = [callers EXCEPT ![c].pc = "get_or_init",
                                     ![c].op = "prewarm_system"]
  /\ UNCHANGED <<num_threads, once, PARALLEL_THRESHOLD, calibrations,
                 FFT_PLANNER>>
  /\ OutsidePool

\* get_or_init: the caller reads the stored value, or becomes the one
\* running the closure, or parks behind the one that is
GetOrInit ==
  /\ \E c \in DOMAIN callers :
       /\ callers[c].pc = "get_or_init"
       /\ LET todo == get_or_init(once)
          IN  IF todo = "get"
              THEN /\ callers' = [callers EXCEPT ![c] =
                         got_threshold(@, PARALLEL_THRESHOLD[2], num_threads)]
                   /\ once' = once
              ELSE IF todo = "init"
              THEN /\ callers' = [callers EXCEPT ![c].pc = "calibrate"]
                   /\ once' = "running"
              ELSE /\ callers' = [callers EXCEPT ![c].pc = "parked",
                                                 ![c].parked = TRUE]
                   /\ once' = once
  /\ UNCHANGED <<num_threads, PARALLEL_THRESHOLD, calibrations, FFT_PLANNER>>
  /\ OutsidePool

\* The closure runs: calibrate_parallel_threshold measures and its result is
\* stored in the cell, which completes the Once
Calibrate ==
  /\ \E c \in DOMAIN callers, micros \in Micros :
       /\ callers[c].pc = "calibrate"
       /\ LET v == calibrate_parallel_threshold(num_threads, micros)
          IN  /\ PARALLEL_THRESHOLD' = Some(v)
              /\ calibrations' =
                   Append(calibrations,
                          [cores |-> num_threads, micros |-> micros,
                           threshold |-> v])
              /\ callers' = [callers EXCEPT ![c] =
                               got_threshold(@, v, num_threads)]
  /\ once' = "complete"
  /\ UNCHANGED <<num_threads, FFT_PLANNER>>
  /\ OutsidePool

\* A parked caller is woken once the Once is complete and reads the value
Unpark ==
  /\ once = "complete"
  /\ \E c \in DOMAIN callers :
       /\ callers[c].pc = "parked"
       /\ callers' = [callers EXCEPT ![c] =
                        got_threshold(@, PARALLEL_THRESHOLD[2], num_threads)]
  /\ UNCHANGED <<num_threads, once, PARALLEL_THRESHOLD, calibrations,
                 FFT_PLANNER>>
  /\ OutsidePool

\* The first closure of prewarm_system's rayon::join touches the planner of
\* the thread that runs it: the caller when it is a worker of the pool, else
\* the worker the pool gives the injected join to
PrewarmFirstClosure ==
  /\ \E c \in DOMAIN callers :
       /\ callers[c].pc = "join"
       /\ ~callers[c].a_done
       /\ \E w \in (IF callers[c].home = 0 THEN 1..num_threads
                    ELSE {callers[c].home}) :
            FFT_PLANNER' = prewarm_fft_planner(FFT_PLANNER, w)
       /\ callers' = [callers EXCEPT ![c].a_done = TRUE]
  /\ UNCHANGED <<num_threads, once, PARALLEL_THRESHOLD, calibrations>>
  /\ OutsidePool

\* One item of (0..threads).into_par_iter().for_each(..) is run by the
\* worker that took it
PrewarmItem ==
  /\ \E c \in DOMAIN callers :
       /\ callers[c].pc = "join"
       /\ callers[c].items > 0
       /\ \E w \in 1..num_threads :
            FFT_PLANNER' = prewarm_fft_planner(FFT_PLANNER, w)
       /\ callers' = [callers EXCEPT ![c].items = @ - 1]
  /\ UNCHANGED <<num_threads, once, PARALLEL_THRESHOLD, calibrations>>
  /\ OutsidePool

\* rayon::join returns once both closures have, and prewarm_system with it
PrewarmReturn ==
  /\ \E c \in DOMAIN callers :
       /\ callers[c].pc = "join"
       /\ callers[c].a_done
       /\ callers[c].items = 0
       /\ callers' = [callers EXCEPT ![c].pc = "idle",
                                     ![c].finished = Append(@, "prewarm_system")]
  /\ UNCHANGED <<num_threads, once, PARALLEL_THRESHOLD, calibrations,
                 FFT_PLANNER>>
  /\ OutsidePool

NextThreshold ==
  \/ CallGetParallelThreshold
  \/ GetOrInit
  \/ Calibrate
  \/ Unpark

SpecThreshold == InitThreshold /\ [][NextThreshold]_vars

NextPrewarm ==
  \/ CallPrewarmSystem
  \/ GetOrInit
  \/ Calibrate
  \/ Unpark
  \/ PrewarmFirstClosure
  \/ PrewarmItem
  \/ PrewarmReturn

SpecPrewarm == InitPrewarm /\ [][NextPrewarm]_vars

\* C13: every value get_parallel_threshold() has returned, to any thread and
\* at any call, is the value the cell holds, so all of them are equal, also
\* when the first calls arrive while the closure is running; the closure has
\* run at most once, and a value once stored is never replaced.
C13_ThresholdStoredOnce ==
  /\ [](/\ Len(calibrations) <= 1
        /\ (PARALLEL_THRESHOLD # None) = (once = "complete")
        /\ \A c \in DOMAIN callers : \A i \in DOMAIN callers[c].seen :
             PARALLEL_THRESHOLD = Some(callers[c].seen[i])
        /\ \A c, d \in DOMAIN callers :
             \A i \in DOMAIN callers[c].seen, j \in DOMAIN callers[d].seen :
               callers[c].seen[i] = callers[d].seen[j])
  /\ [][PARALLEL_THRESHOLD # None =>
          PARALLEL_THRESHOLD' = PARALLEL_THRESHOLD]_vars

\* A thread whose first call arrived while another thread was running the
\* closure has been given the stored value, and the other thread twice
C13_Witness ==
  \E c, d \in DOMAIN callers :
    /\ c # d
    /\ callers[c].parked /\ Len(callers[c].seen) = 1
    /\ Len(callers[d].seen) = 2
    /\ callers[c].seen[1] = callers[d].seen[2]
    /\ Len(calibrations) = 1

warmed(r) == \E i \in DOMAIN r.finished : r.finished[i] = "prewarm_system"

\* C16: whenever a call of prewarm_system() has returned, the FFT planner has
\* been touched on the calling thread and on every worker thread of the
\* pool, whichever workers ran the dispatched touches.
C16_EveryPlannerTouched ==
  \A c \in DOMAIN callers :
    warmed(callers[c]) =>
      /\ FFT_PLANNER[thread_of(callers[c], c)] > 0
      /\ \A w \in 1..num_threads : FFT_PLANNER[w] > 0

\* C17: once a call of prewarm_system() has returned, no later step of any
\* call changes the cached threshold or runs the calibration again, and
\* every planner that has been built stays the planner it is.
C17_PrewarmIdempotent ==
  [][(\E c \in DOMAIN callers : warmed(callers[c])) =>
       /\ PARALLEL_THRESHOLD' = PARALLEL_THRESHOLD
       /\ calibrations' = calibrations
       /\ once' = once
       /\ \A t \in DOMAIN FFT_PLANNER :
            FFT_PLANNER[t] > 0 => FFT_PLANNER'[t] = FFT_PLANNER[t]]_vars

\* A thread has had two calls of prewarm_system return, the second of which
\* touched planners the first had built, after a single calibration
C17_Witness ==
  \E c \in DOMAIN callers :
    /\ Len(callers[c].finished) = 2
    /\ callers[c].finished[1] = "prewarm_system"
    /\ callers[c].finished[2] = "prewarm_system"
    /\ Len(callers[c].seen) = 2 /\ callers[c].seen[1] = callers[c].seen[2]
    /\ Len(calibrations) = 1
    /\ num_threads > 1
    /\ \E w \in 1..num_threads : FFT_PLANNER[w] = 1

\* ------------------------------------------------------------------------
\* run_all_parallel (lib.rs)
\* ------------------------------------------------------------------------

\* The arguments explored: every index up to MaxAll, those of the tests, and
\* indices beyond the 128-bit table
MaxAll == 10

RunAllInputs == (0..MaxAll) \cup {50, 100, 187, MaxN}

\* The three closures spawned in the scope, by the function each calls
Spawned ==
  {"fibonacci_fast_doubling", "fibonacci_parallel", "fibonacci_fft"}

\* A variant of lock that lets a task in while another holds the guard
lock_unguarded(holder) == TRUE

\* results.lock(): granted when no task holds the guard
lock(holder) == holder = "free"

\* Vec::push under the guard: the element is written at the length read and
\* the length becomes one more
push(vec, len, entry) ==
  [i \in 1..(len + 1) |-> IF i = len + 1 THEN entry ELSE vec[i]]

\* run_all_parallel(n) has entered rayon::scope and spawned the three tasks
InitRunAll ==
  /\ run_n \in RunAllInputs
  /\ spawned = [t \in Spawned |-> [pc |-> "spawned", res |-> <<>>, len |-> 0]]
  /\ mutex = "free"
  /\ results = <<>>
  /\ returned = None
  /\ NoRun /\ NoRequest /\ NoRange /\ NoPool /\ NoProgress
  /\ NoRest

OutsideScope ==
  /\ UNCHANGED runVars /\ UNCHANGED adaptiveVars /\ UNCHANGED rangeVars
  /\ UNCHANGED poolVars /\ UNCHANGED progressVars
  /\ UNCHANGED restVars

\* A task runs its algorithm on n
TaskCompute ==
  /\ \E t \in DOMAIN spawned :
       /\ spawned[t].pc = "spawned"
       /\ spawned' = [spawned EXCEPT ![t].pc = "computed",
                                     ![t].res = call_value(t, FromNat(run_n))]
  /\ UNCHANGED <<run_n, mutex, results, returned>>
  /\ OutsideScope

\* A task takes the guard of results and reads the Vec's length
TaskLock ==
  /\ \E t \in DOMAIN spawned :
       /\ spawned[t].pc = "computed"
       /\ lock(mutex)
       /\ mutex' = t
       /\ spawned' = [spawned EXCEPT ![t].pc = "locked",
                                     ![t].len = Len(results)]
  /\ UNCHANGED <<run_n, results, returned>>
  /\ OutsideScope

\* The task pushes (name, duration, res) and drops the guard
TaskPush ==
  /\ \E t \in DOMAIN spawned :
       /\ spawned[t].pc = "locked"
       /\ results' = push(results, spawned[t].len,
                          [name |-> AlgorithmName(t), duration |-> "elapsed",
                           result |-> spawned[t].res])
       /\ spawned' = [spawned EXCEPT ![t].pc = "finished"]
  /\ mutex' = "free"
  /\ UNCHANGED <<run_n, returned>>
  /\ OutsideScope

\* rayon::scope returns once every spawned task has finished, and
\* run_all_parallel returns the Vec
ScopeReturn ==
  /\ returned = None
  /\ \A t \in DOMAIN spawned : spawned[t].pc = "finished"
  /\ returned' = Some(results)
  /\ UNCHANGED <<run_n, spawned, mutex, results>>
  /\ OutsideScope

NextRunAll ==
  \/ TaskCompute
  \/ TaskLock
  \/ TaskPush
  \/ ScopeReturn

SpecRunAll == InitRunAll /\ [][NextRunAll]_vars

\* C15: run_all_parallel(n) returns only once all three spawned tasks have
\* finished, and under every interleaving what it returns holds exactly
\* three entries, one named "Fast Doubling", one "Parallel" and one "FFT",
\* whose three values are equal (F(n)); the entries stand in the order the
\* tasks pushed them, each push adding one entry after those already there.
C15_ThreeEntries ==
  /\ [](returned # None =>
          LET out == returned[2]
          IN  /\ \A t \in DOMAIN spawned : spawned[t].pc = "finished"
              /\ Len(out) = 3
              /\ {out[i].name : i \in 1..Len(out)} =
                   {"Fast Doubling", "Parallel", "FFT"}
              /\ \A i, j \in 1..Len(out) : out[i].result = out[j].result
              /\ \A i \in 1..Len(out) : out[i].result = F(run_n))
  /\ [][/\ Len(results') \in {Len(results), Len(results) + 1}
        /\ \A i \in 1..Len(results) : results'[i] = results[i]]_vars

\* run_all_parallel has returned for an index beyond the 128-bit table with
\* the FFT entry first and the Fast Doubling entry last
C15_Witness ==
  /\ returned # None /\ run_n > 186
  /\ Len(returned[2]) = 3
  /\ returned[2][1].name = "FFT" /\ returned[2][3].name = "Fast Doubling"
  /\ returned[2][1].result = F(run_n)

\* ------------------------------------------------------------------------
\* Progress reporting (progress.rs)
\* ------------------------------------------------------------------------

\* The bit counts explored. Up to these sizes every f64 the code computes
\* other than a progress ratio is an integer below 2^53, hence exact; a ratio
\* is kept as the pair <<numerator, total_work>>, and its comparisons with
\* 1.0 and 0.01 are made on the exact values (no difference compared with
\* 0.01 comes within 1e-9 of it at these sizes).
MaxBits == 11

\* calc_total_work(num_bits): (4^n - 1) / 3, and 0 for 0 bits
calc_total_work(n) == IF n = 0 THEN 0 ELSE ((4 ^ n) - 1) \div 3

\* precompute_powers_4(num_bits): 4^0, ..., 4^(n-1)
precompute_powers_4(n) == [k \in 1..n |-> 4 ^ (k - 1)]

\* A variant of report_step_progress that does not report the first step
\* for its own sake
report_step_progress_no_start(call) ==
  IF call.reporter = None \/ call.total_work <= 0 \/ call.num_bits = 0
  THEN [work_done |-> call.work_done, last_reported |-> call.last_reported,
        reported |-> None]
  ELSE LET power_idx == call.num_bits - 1 - call.bit_index
           step_work == IF power_idx < Len(call.powers)
                        THEN call.powers[power_idx + 1]
                        ELSE 4 ^ power_idx
           current_total_done == call.work_done + step_work
           current_progress ==
             IF current_total_done > call.total_work
             THEN <<call.total_work, call.total_work>>
             ELSE <<current_total_done, call.total_work>>
           is_end == call.bit_index = 0
           significant_change ==
             100 * (current_progress[1] - call.last_reported[1])
               >= call.total_work
       IN  IF is_end \/ significant_change
           THEN [work_done |-> current_total_done,
                 last_reported |-> current_progress,
                 reported |-> Some(current_progress)]
           ELSE [work_done |-> current_total_done,
                 last_reported |-> call.last_reported,
                 reported |-> None]

\* report_step_progress(reporter, last_reported, total_work, work_done,
\* bit_index, num_bits, powers): the work_done it returns, the last_reported
\* it leaves, and the value it gave the reporter, if any
report_step_progress(call) ==
  IF call.reporter = None \/ call.total_work <= 0 \/ call.num_bits = 0
  THEN [work_done |-> call.work_done, last_reported |-> call.last_reported,
        reported |-> None]
  ELSE LET power_idx == call.num_bits - 1 - call.bit_index
           step_work == IF power_idx < Len(call.powers)
                        THEN call.powers[power_idx + 1]
                        ELSE 4 ^ power_idx
           current_total_done == call.work_done + step_work
           current_progress ==
             IF current_total_done > call.total_work
             THEN <<call.total_work, call.total_work>>
             ELSE <<current_total_done, call.total_work>>
           is_start == call.bit_index = call.num_bits - 1
           is_end == call.bit_index = 0
           significant_change ==
             100 * (current_progress[1] - call.last_reported[1])
               >= call.total_work
       IN  IF is_start \/ is_end \/ significant_change
           THEN [work_done |-> current_total_done,
                 last_reported |-> current_progress,
                 reported |-> Some(current_progress)]
           ELSE [work_done |-> current_total_done,
                 last_reported |-> call.last_reported,
                 reported |-> None]

\* A loop over num_bits bits is about to start: total_work and powers as
\* calc_total_work and precompute_powers_4 give them (or powers computed for
\* fewer bits), work_done = 0.0, last_reported = -1.0 or 0.0, with or without
\* a reporter
InitProgress ==
  /\ num_bits \in 0..MaxBits
  /\ bit_index = num_bits - 1
  /\ total_work = calc_total_work(num_bits)
  /\ work_done = 0
  /\ last_reported \in {<<0 - total_work, total_work>>, <<0, total_work>>}
  /\ powers \in {precompute_powers_4(num_bits),
                 precompute_powers_4(num_bits \div 2)}
  /\ reporter \in {None, Some("rpt")}
  /\ reports = <<>>
  /\ NoRun /\ NoRequest /\ NoRange /\ NoPool /\ NoScope
  /\ NoRest

\* One iteration of the loop: report_step_progress for the current bit, its
\* return value fed back as work_done
ReportStep ==
  /\ bit_index >= 0
  /\ LET out == report_step_progress(
                  [reporter |-> reporter, last_reported |-> last_reported,
                   total_work |-> total_work, work_done |-> work_done,
                   bit_index |-> bit_index, num_bits |-> num_bits,
                   powers |-> powers])
     IN  /\ work_done' = out.work_done
         /\ last_reported' = out.last_reported
         /\ reports' = IF out.reported = None THEN reports
                       ELSE Append(reports, [bit_index |-> bit_index,
                                             value |-> out.reported[2]])
  /\ bit_index' = bit_index - 1
  /\ UNCHANGED <<num_bits, total_work, powers, reporter>>
  /\ UNCHANGED runVars /\ UNCHANGED adaptiveVars /\ UNCHANGED rangeVars
  /\ UNCHANGED poolVars /\ UNCHANGED scopeVars
  /\ UNCHANGED restVars

NextProgress == ReportStep

SpecProgress == InitProgress /\ [][NextProgress]_vars

\* C18: in a loop that calls report_step_progress once per bit, from bit
\* num_bits - 1 down to 0, feeding work_done back, a reporter receives values
\* in [0, 1] that never decrease; it has been called at the first step as
\* soon as that step is over, and when the loop ends its last call was made
\* at the last step (bit 0) with a value of at least 0.99.
C18_ProgressReports ==
  reporter # None =>
    /\ \A i \in DOMAIN reports :
         /\ reports[i].value[2] > 0
         /\ reports[i].value[1] >= 0
         /\ reports[i].value[1] <= reports[i].value[2]
    /\ \A i \in DOMAIN reports : \A j \in DOMAIN reports :
         i < j =>
           /\ reports[i].value[2] = reports[j].value[2]
           /\ reports[i].value[1] <= reports[j].value[1]
           /\ reports[i].bit_index > reports[j].bit_index
    /\ num_bits > 0 /\ bit_index < num_bits - 1 =>
         /\ Len(reports) >= 1
         /\ reports[1].bit_index = num_bits - 1
    /\ num_bits > 0 /\ bit_index < 0 =>
         /\ reports[Len(reports)].bit_index = 0
         /\ 100 * reports[Len(reports)].value[1]
              >= 99 * reports[Len(reports)].value[2]

\* A loop over at least 8 bits that started from last_reported = 0.0 has
\* ended; its reporter was called at the first step with a value below
\* 0.01, skipped some steps, and was called at the last step with 1.0
C18_Witness ==
  /\ reporter # None /\ num_bits >= 8 /\ bit_index < 0
  /\ Len(reports) < num_bits
  /\ reports[1].bit_index = num_bits - 1
  /\ 100 * reports[1].value[1] < reports[1].value[2]
  /\ reports[Len(reports)].bit_index = 0
  /\ reports[Len(reports)].value[1] = reports[Len(reports)].value[2]

\* ------------------------------------------------------------------------
\* The label of an adaptive calculation (fibrust-cli main.rs)
\* ------------------------------------------------------------------------

\* C19: whenever the CLI's adaptive calculation has produced a result, the
\* algorithm that ran is Fast Doubling for n < 1 000 000 and FFT for larger
\* n, and the label "Adaptive (using ...)" names the algorithm that ran.
C19_LabelNamesAlgorithm ==
  result.tag = "AlgorithmResult" =>
    /\ Len(result.calls) = 1
    /\ result.calls[1].fn =
         (IF BigLt(req, FromNat(1000000)) THEN "fibonacci_fast_doubling"
          ELSE "fibonacci_fft")
    /\ result.name =
         <<"Adaptive (using ", AlgorithmName(result.calls[1].fn), ")">>

\* ------------------------------------------------------------------------
\* Further properties of the doubling runs
\* ------------------------------------------------------------------------

C12_ScheduleIndependent ==
  /\ [](/\ pc = "done" /\ alg = "fibonacci_parallel" =>
             ret = fibonacci_parallel(arg, FFT_BIT_THRESHOLD)
        /\ pc = "done" /\ alg = "fibonacci_fft" =>
             ret = fibonacci_fft_at(arg, FFT_BIT_THRESHOLD)
        /\ pc = "parallel_forked" =>
             \A t \in DOMAIN tasks :
               tasks[t] = (IF t = "c" THEN task_c(fa, fb)
                           ELSE IF t = "a_sq" THEN task_a_sq(fa)
                           ELSE task_b_sq(fb)))
  /\ [][pc = "parallel_forked" /\ DOMAIN tasks # TaskNames =>
          fa' = fa /\ fb' = fb]_vars

\* fibonacci_parallel has returned from a run in which some steps forked and
\* others did not, with the value it returns when no step forks
C12_Witness ==
  /\ pc = "done" /\ alg = "fibonacci_parallel" /\ arg > 186
  /\ {"inline", "fork"} \subseteq taken /\ threshold = LowThreshold
  /\ ret = fibonacci_parallel(arg, FFT_BIT_THRESHOLD)

\* n >> i
shr(n, i) == n \div (2 ^ i)

\* C20: in the loops of fib_pair (seeded (1, 1), the leading bit skipped),
\* fibonacci_parallel and fibonacci_fft (seeded (0, 1), every bit examined),
\* before the first iteration and after the iteration that examined bit i the
\* state is (a, b) = (F(k), F(k+1)) with k = n >> i, so that each iteration
\* takes k to 2k when the bit is 0 and to 2k + 1 when it is 1; a step whose
\* multiplications are still outstanding holds the pair it started with.
C20_LoopInvariant ==
  pc \in {"fib_pair_loop", "parallel_loop", "parallel_forked", "fft_loop"} =>
    LET k == shr(arg, idx + 1)
    IN  /\ fa = F(k) /\ fb = F(k + 1)
        /\ idx >= 0 => 2 * k + Bit(arg, idx) = shr(arg, idx)
        /\ idx >= -1 /\ idx <= highest_bit(arg)

\* fibonacci_fft is inside its loop after unified FFT steps, with bits left
\* to examine and the pair of an index above 2
C20_Witness ==
  /\ pc = "fft_loop" /\ "unified" \in taken /\ idx >= 1
  /\ shr(arg, idx + 1) > 2
  /\ fa = F(shr(arg, idx + 1)) /\ fb = F(shr(arg, idx + 1) + 1)

\* ------------------------------------------------------------------------
\* The unified FFT step
\* ------------------------------------------------------------------------

\* (a * (2b - a), a^2 + b^2) by exact integer arithmetic
ExactDoubling(a, b) ==
  <<BigMul(a, BigSub(BigShl1(b), a)), BigAdd(BigMul(a, a), BigMul(b, b))>>

\* Coefficient k (from 1) of the product of the polynomials u and v
Linear(u, v, k) ==
  SumRange([i \in 1..Len(u) |->
              IF k + 1 - i \in 1..Len(v) THEN u[i] * v[k + 1 - i] ELSE 0],
           1, Len(u))

\* The values of a step are the coefficients of the two polynomial products,
\* none of them wrapped around or beyond the result_len values read back
NoWrapAround(t) ==
  LET a_digits == t.a_digits
      b_digits == t.b_digits
      width    == IF Len(a_digits) > Len(b_digits) THEN Len(a_digits)
                  ELSE Len(b_digits)
      at(s, j) == IF j <= Len(s) THEN s[j] ELSE 0
      diff     == [j \in 1..width |-> 2 * at(b_digits, j) - at(a_digits, j)]
      c_at(k)  == Linear(a_digits, diff, k)
      d_at(k)  == Linear(a_digits, a_digits, k) + Linear(b_digits, b_digits, k)
  IN  /\ t.fft_size >= t.result_len
      /\ \A k \in 1..t.fft_size :
           t.c_values[k] = c_at(k) /\ t.d_values[k] = d_at(k)
      /\ \A k \in (t.result_len + 1)..(2 * t.fft_size) :
           c_at(k) = 0 /\ d_at(k) = 0

\* C21: every unified FFT step of a run takes (a, b) to exactly
\* (a * (2b - a), a^2 + b^2): its values are the coefficients of the exact
\* products, none wrapped around or beyond the first result_len values, the
\* carry pass returns, and for a = 0 the step gives (0, b^2) and leaves the
\* workspace untouched.
C21_UnifiedStepExact ==
  [][pc = "fft_loop" /\ idx >= 0 /\ fft_unified(fa, fb, threshold) =>
       /\ pc' = "fft_loop"
       /\ <<fa', fb'>> = advance(ExactDoubling(fa, fb)[1],
                                 ExactDoubling(fa, fb)[2], Bit(arg, idx))
       /\ IF fa = <<>> THEN workspace' = workspace
          ELSE NoWrapAround(unified_fft_transforms(fa, fb, workspace))]_vars

\* A run has taken unified steps and now stands before one whose product
\* a * (2b - a) has a negative coefficient
C21_Witness ==
  /\ pc = "fft_loop" /\ idx >= 0 /\ "unified" \in taken
  /\ fft_unified(fa, fb, threshold)
  /\ Len(fa) > 8
  /\ \E k \in 1..Len(ubig_to_digits(fa, BASE_BITS_DEFAULT)) :
       unified_fft_transforms(fa, fb, workspace).c_values[k] < 0

\* ------------------------------------------------------------------------
\* The precision constraint of the unified FFT step (fft.rs, config.rs)
\* ------------------------------------------------------------------------

\* C22: in every unified FFT step run for an n that try_fibonacci_adaptive
\* accepted, base_bits is 13, or 12 when the operands have more than 10^8
\* bits together, and 2 * base_bits + log2(fft_size) < 53.
C22_PrecisionConstraint ==
  result.tag = "unified_fft_step" =>
    /\ result.sizes.base_bits =
         (IF BigLt(FromNat(100000000), result.sizes.approx_bits) THEN 12
          ELSE 13)
    /\ 2 * result.sizes.base_bits + result.sizes.log2_fft_size < 53

\* ------------------------------------------------------------------------
\* The reverse state of a FibRange
\* ------------------------------------------------------------------------

\* C23: next_back never subtracts below zero: while position < end the
\* reverse state is (F(end-1), F(end)), and whenever back_next is below
\* back_current (as after F(0) has been yielded) the range is empty and
\* next_back returns None without touching the state.
C23_ReverseStateGuarded ==
  phase = "iterating" =>
    /\ back_current # Underflow /\ back_next # Underflow
    /\ position < end => back_current = F(end - 1) /\ back_next = F(end)
    /\ BigLt(back_next, back_current) =>
         /\ position >= end
         /\ FibRange_next_back(this) = <<this, None>>

\* A range from index 0 has been drained from the back down to F(0), which
\* left the state (1, 0), and a further next_back() has returned None
C23_Witness ==
  /\ phase = "iterating" /\ range_start = 0 /\ range_end = MaxLen
  /\ Len(back) = MaxLen /\ back[MaxLen] = <<>>
  /\ back_current = <<1>> /\ back_next = <<>>
  /\ last.call = "next_back" /\ last.result = None

\* ------------------------------------------------------------------------
\* The subtraction 2b - a
\* ------------------------------------------------------------------------

\* C24: in every state from which a doubling step of fib_pair,
\* fibonacci_parallel or fibonacci_fft runs, the seed state included,
\* a <= b, so 2b - a does not go below zero; no register, forked product or
\* returned value is ever the result of a subtraction below zero.
C24_SubtractionGuarded ==
  /\ pc \in {"fib_pair_loop", "parallel_loop", "parallel_forked", "fft_loop"}
       => /\ BigLe(fa, fb)
          /\ BigSub(BigShl1(fb), fa) # Underflow
  /\ fa # Underflow /\ fb # Underflow
  /\ \A t \in DOMAIN tasks : tasks[t] # Underflow
  /\ pc = "done" => ret # Underflow /\ (alg = "fib_pair" => Underflow \notin {ret[1], ret[2]})

\* fibonacci_parallel has forked a step from a state well above the seed,
\* with a < b, and the forked product c = a * (2b - a) has been computed
C24_Witness ==
  /\ pc = "parallel_forked" /\ "c" \in DOMAIN tasks
  /\ bit_len(fa) > LowThreshold
  /\ BigLt(fa, fb)
  /\ tasks["c"] = BigMul(fa, BigSub(BigShl1(fb), fa))

\* ------------------------------------------------------------------------
\* The carry pass of the unified FFT step
\* ------------------------------------------------------------------------

\* The carries after each of the first result_len values of a step
carries(values, t) ==
  [j \in 1..t.result_len |-> Carry(values, 1, j, 0, t.base_bits)[2]]

\* C25: no run ever hangs in a carry loop: for both value vectors of every
\* unified step, each digit the pass emits lies in [0, 2^base_bits), the
\* carry left after the last value is not negative, and process_result
\* returns.
C25_CarryPassTerminates ==
  /\ pc # "hung"
  /\ pc = "fft_loop" /\ idx >= 0 /\ fft_unified(fa, fb, threshold)
       /\ fa # <<>> =>
       LET t == unified_fft_transforms(fa, fb, workspace)
       IN  \A values \in {t.c_values, t.d_values} :
             LET pass == Carry(values, 1, t.result_len, 0, t.base_bits)
             IN  /\ Len(pass[1]) = t.result_len
                 /\ \A j \in 1..t.result_len :
                      pass[1][j] >= 0 /\ pass[1][j] < 2 ^ t.base_bits
                 /\ pass[2] >= 0
                 /\ process_result(values, t.result_len, t.base_bits)
                      # NoReturn

\* A run has taken unified steps and stands before one in whose carry pass
\* over the values of a * (2b - a) an intermediate carry is negative
C25_Witness ==
  /\ pc = "fft_loop" /\ idx >= 0 /\ "unified" \in taken
  /\ fft_unified(fa, fb, threshold) /\ fa # <<>>
  /\ LET t == unified_fft_transforms(fa, fb, workspace)
     IN  \E j \in 1..t.result_len : carries(t.c_values, t)[j] < 0

\* ------------------------------------------------------------------------
\* The borrow of the thread-local FFT planner (fft.rs, lib.rs)
\* ------------------------------------------------------------------------

\* The pools explored: up to MaxWorkers workers, up to MaxFftTasks spawned
\* closures that call fibonacci_fft (one per run_all_parallel under way), each
\* with up to MaxUnifiedSteps loop iterations above the FFT bit threshold,
\* and up to MaxTouches prewarm_fft_planner jobs of prewarm_system.
MaxWorkers == 2

MaxFftTasks == 2

MaxUnifiedSteps == 2

MaxTouches == 1

\* The fork-join points inside the borrow of one unified_fft_step: the joins
\* of the copies, of the forward transforms, of the inverse transforms and of
\* the two process_result calls, and the par_iter_mut().for_each between
ForkJoinPoints == 5

\* RefCell::borrow_mut on a cell whose borrow flag is given: the borrow, or
\* the panic "already borrowed"
borrow_mut(flag) == IF flag THEN "BorrowMutError" ELSE "borrowed"

\* The job a worker is running innermost
top(w) == stacks[w][Len(stacks[w])]

\* A worker looks for work when it has nothing to run, or while it waits at
\* a fork-join point for a closure another worker has taken from it
looks_for_work(w) ==
  /\ w \notin panicked
  /\ IF stacks[w] = <<>>
     THEN TRUE
     ELSE /\ top(w).kind = "fibonacci_fft"
          /\ top(w).pc = "wait" /\ top(w).b = "stolen"

\* The frame of a spawned closure that calls fibonacci_fft, before the first
\* unified step of its loop
fft_frame(steps) ==
  [kind |-> "fibonacci_fft", pc |-> "step", steps |-> steps, forks |-> 0,
   b |-> "none"]

\* The frame after one fork-join point has been passed
joined(frame) ==
  [frame EXCEPT !.forks = @ - 1, !.b = "none",
                !.pc = IF frame.forks > 1 THEN "fork" ELSE "release"]

\* Calls of run_all_parallel and of prewarm_system have put their jobs into
\* the pool
InitBorrow ==
  /\ pool_size \in 1..MaxWorkers
  /\ \E f \in 1..MaxFftTasks, t \in 0..MaxTouches, s \in 1..MaxUnifiedSteps :
       jobs = [fft |-> f, steps |-> s, touch |-> t]
  /\ stacks = [w \in 1..pool_size |-> <<>>]
  /\ borrowed = [w \in 1..pool_size |-> FALSE]
  /\ panicked = {}
  /\ NoRun /\ NoRequest /\ NoRange /\ NoPool /\ NoScope /\ NoProgress
  /\ NoDigits /\ NoServer /\ NoBench

OutsideBorrow ==
  /\ UNCHANGED runVars /\ UNCHANGED adaptiveVars /\ UNCHANGED rangeVars
  /\ UNCHANGED poolVars /\ UNCHANGED scopeVars /\ UNCHANGED progressVars
  /\ UNCHANGED digitVars /\ UNCHANGED serverVars /\ UNCHANGED benchVars

\* A worker that looks for work takes the spawned closure of a
\* run_all_parallel that calls fibonacci_fft
TakeFftTask ==
  /\ jobs.fft > 0
  /\ \E w \in 1..pool_size :
       /\ looks_for_work(w)
       /\ stacks' = [stacks EXCEPT ![w] = Append(@, fft_frame(jobs.steps))]
  /\ jobs' = [jobs EXCEPT !.fft = @ - 1]
  /\ UNCHANGED <<pool_size, borrowed, panicked>>
  /\ OutsideBorrow

\* A worker that looks for work takes a prewarm_fft_planner job and runs it:
\* FFT_PLANNER.with(|p| { let _ = p.borrow_mut(); })
TakeTouch ==
  /\ jobs.touch > 0
  /\ \E w \in 1..pool_size :
       /\ looks_for_work(w)
       /\ panicked' = IF borrow_mut(borrowed[w]) = "BorrowMutError"
                      THEN panicked \cup {w} ELSE panicked
  /\ jobs' = [jobs EXCEPT !.touch = @ - 1]
  /\ UNCHANGED <<pool_size, stacks, borrowed>>
  /\ OutsideBorrow

\* unified_fft_step reaches FFT_PLANNER.with(|planner| planner.borrow_mut())
BorrowPlanner ==
  /\ \E w \in 1..pool_size :
       /\ w \notin panicked
       /\ stacks[w] # <<>>
       /\ top(w).kind = "fibonacci_fft" /\ top(w).pc = "step"
       /\ IF borrow_mut(borrowed[w]) = "BorrowMutError"
          THEN /\ panicked' = panicked \cup {w}
               /\ UNCHANGED <<stacks, borrowed>>
          ELSE /\ borrowed' = [borrowed EXCEPT ![w] = TRUE]
               /\ stacks' = [stacks EXCEPT ![w][Len(stacks[w])] =
                               [@ EXCEPT !.pc = "fork",
                                         !.forks = ForkJoinPoints]]
               /\ UNCHANGED panicked
  /\ UNCHANGED <<pool_size, jobs>>
  /\ OutsideBorrow

\* A fork-join point inside the borrow: the second closure is put where other
\* workers can take it, the first closure runs, and the worker waits
Fork ==
  /\ \E w \in 1..pool_size :
       /\ w \notin panicked
       /\ stacks[w] # <<>>
       /\ top(w).kind = "fibonacci_fft" /\ top(w).pc = "fork"
       /\ stacks' = [stacks EXCEPT ![w][Len(stacks[w])] =
                       [@ EXCEPT !.pc = "wait", !.b = "pending"]]
  /\ UNCHANGED <<pool_size, jobs, borrowed, panicked>>
  /\ OutsideBorrow

\* The waiting worker finds its second closure untaken and runs it itself
JoinInline ==
  /\ \E w \in 1..pool_size :
       /\ w \notin panicked
       /\ stacks[w] # <<>>
       /\ top(w).kind = "fibonacci_fft" /\ top(w).pc = "wait"
       /\ top(w).b = "pending"
       /\ stacks' = [stacks EXCEPT ![w][Len(stacks[w])] = joined(@)]
  /\ UNCHANGED <<pool_size, jobs, borrowed, panicked>>
  /\ OutsideBorrow

\* Another worker that looks for work takes the second closure
Steal ==
  /\ \E w \in 1..pool_size, thief \in 1..pool_size :
       /\ thief # w
       /\ looks_for_work(thief)
       /\ stacks[w] # <<>>
       /\ top(w).kind = "fibonacci_fft" /\ top(w).pc = "wait"
       /\ top(w).b = "pending"
       /\ stacks' = [stacks EXCEPT
                       ![w][Len(stacks[w])] = [@ EXCEPT !.b = "stolen"],
                       ![thief] = Append(@, [kind |-> "closure", owner |-> w,
                                             depth |-> Len(stacks[w])])]
  /\ UNCHANGED <<pool_size, jobs, borrowed, panicked>>
  /\ OutsideBorrow

\* The thief finishes the closure it took, which sets the latch of the join
FinishClosure ==
  /\ \E thief \in 1..pool_size :
       /\ stacks[thief] # <<>>
       /\ top(thief).kind = "closure"
       /\ LET owner == top(thief).owner
              depth == top(thief).depth
          IN  stacks' = [stacks EXCEPT
                           ![thief] = SubSeq(@, 1, Len(@) - 1),
                           ![owner][depth] = [@ EXCEPT !.b = "done"]]
  /\ UNCHANGED <<pool_size, jobs, borrowed, panicked>>
  /\ OutsideBorrow

\* The waiting worker, with nothing nested left to run, sees the latch set
JoinStolen ==
  /\ \E w \in 1..pool_size :
       /\ w \notin panicked
       /\ stacks[w] # <<>>
       /\ top(w).kind = "fibonacci_fft" /\ top(w).pc = "wait"
       /\ top(w).b = "done"
       /\ stacks' = [stacks EXCEPT ![w][Len(stacks[w])] = joined(@)]
  /\ UNCHANGED <<pool_size, jobs, borrowed, panicked>>
  /\ OutsideBorrow

\* The closure given to FFT_PLANNER.with returns: the borrow is dropped, and
\* fibonacci_fft goes on to its next unified step or returns
Release ==
  /\ \E w \in 1..pool_size :
       /\ w \notin panicked
       /\ stacks[w] # <<>>
       /\ top(w).kind = "fibonacci_fft" /\ top(w).pc = "release"
       /\ borrowed' = [borrowed EXCEPT ![w] = FALSE]
       /\ stacks' = [stacks EXCEPT ![w] =
                       IF top(w).steps > 1
                       THEN [@ EXCEPT ![Len(@)] =
                               [top(w) EXCEPT !.pc = "step", !.steps = @ - 1]]
                       ELSE SubSeq(@, 1, Len(@) - 1)]
  /\ UNCHANGED <<pool_size, jobs, panicked>>
  /\ OutsideBorrow

NextBorrow ==
  \/ TakeFftTask
  \/ TakeTouch
  \/ BorrowPlanner
  \/ Fork
  \/ JoinInline
  \/ Steal
  \/ FinishClosure
  \/ JoinStolen
  \/ Release

SpecBorrow == InitBorrow /\ [][NextBorrow]_vars

\* C26: no worker ever asks for a mutable borrow of its FFT planner while it
\* holds one: no job a worker picks up while it waits at a fork-join point of
\* a unified FFT step borrows the planner of that worker.
C26_NoSecondBorrow == panicked = {}


\* ------------------------------------------------------------------------
\* The 128-bit paths (fast_doubling.rs)
\* ------------------------------------------------------------------------

\* The table starts 0, 1, every later entry is the sum of the two before it,
\* and every entry is below 2^128 (16 bytes)
TableIsFibonacci ==
  /\ Len(FIB_U128_LOOKUP) = 187
  /\ FIB_U128_LOOKUP[1] = <<>> /\ FIB_U128_LOOKUP[2] = <<1>>
  /\ \A i \in 1..(Len(FIB_U128_LOOKUP) - 2) :
       FIB_U128_LOOKUP[i + 2] = BigAdd(FIB_U128_LOOKUP[i], FIB_U128_LOOKUP[i + 1])
  /\ \A i \in 1..Len(FIB_U128_LOOKUP) : Len(FIB_U128_LOOKUP[i]) <= 16

\* The sum a + b formed by iteration k (from 1) of fib_pair_u128's loop,
\* before it is stored into a u128
loop_sum(k) == BigAdd(u128_loop[k][1], u128_loop[k][2])

\* F(187), the sum of the last two entries of the table, needs a 17th byte
NextEntryOverflows ==
  Len(BigAdd(FIB_U128_LOOKUP[186], FIB_U128_LOOKUP[187])) > 16

\* C27: the table is the Fibonacci sequence in 128 bits; whenever a call has
\* been answered by a 128-bit path, fibonacci(n) had n <= 186 and returned
\* table[n], fib_pair(n) had n <= 185, none of the n sums of its loop
\* exceeded 2^128 - 1, and it returned (table[n], table[n+1]); and F(187)
\* does not fit in 128 bits.
C27_SmallPathsExact ==
  pc = "done" /\ "table" \in taken =>
    /\ TableIsFibonacci
    /\ NextEntryOverflows
    /\ alg = "fib_pair" =>
         /\ arg <= 185
         /\ \A k \in 1..arg : Len(loop_sum(k)) <= 16
         /\ ret = <<FIB_U128_LOOKUP[arg + 1], FIB_U128_LOOKUP[arg + 2]>>
    /\ alg = "fibonacci" =>
         /\ arg <= 186
         /\ ret = FIB_U128_LOOKUP[arg + 1]

\* fib_pair(185) has returned from the additive loop, whose last sum is the
\* last entry of the table and fills all 16 bytes
C27_Witness ==
  /\ pc = "done" /\ alg = "fib_pair" /\ arg = 185 /\ "table" \in taken
  /\ ret[2] = FIB_U128_LOOKUP[187] /\ Len(loop_sum(185)) = 16


\* ------------------------------------------------------------------------
\* The digit conversions (fft.rs)
\* ------------------------------------------------------------------------

\* The values converted have up to MaxDigitBytes bytes
MaxDigitBytes == 4

\* The bytes the values are made of: the ends of the byte range, the top bit
\* alone, and the two bytes of 12345
ByteChoices == {0, 1, 48, 57, 128, 255}

\* The digit widths: BASE_BITS_MASSIVE, BASE_BITS_DEFAULT, and the 14 of the
\* tests
DigitWidths == {BASE_BITS_MASSIVE, BASE_BITS_DEFAULT, 14}

\* The byte exports of up to len bytes: the most significant byte is not zero
RECURSIVE ByteExports(_)
ByteExports(len) ==
  IF len = 0 THEN {<<>>}
  ELSE ByteExports(len - 1)
       \cup {Append(b, top_byte) :
               b \in [1..(len - 1) -> ByteChoices],
               top_byte \in ByteChoices \ {0}}

\* u64::MAX and u128::MAX of tests::ubig_digits_round_trip
AllOnes(len) == [i \in 1..len |-> 255]

InitDigits ==
  /\ val \in ByteExports(MaxDigitBytes) \cup {AllOnes(8), AllOnes(16)}
  /\ digit_bits \in DigitWidths
  /\ digits_u64 = None
  /\ recovered = None
  /\ NoRun /\ NoRequest /\ NoRange /\ NoPool /\ NoScope /\ NoProgress
  /\ NoBorrow /\ NoServer /\ NoBench

OutsideDigits ==
  /\ UNCHANGED runVars /\ UNCHANGED adaptiveVars /\ UNCHANGED rangeVars
  /\ UNCHANGED poolVars /\ UNCHANGED scopeVars /\ UNCHANGED progressVars
  /\ UNCHANGED borrowVars /\ UNCHANGED serverVars /\ UNCHANGED benchVars

\* let digits = ubig_to_digits(&val, base_bits);
\* let digits_u64 = digits.iter().map(|&d| d as u64).collect();
UbigToDigits ==
  /\ digits_u64 = None
  /\ digits_u64' = Some(ubig_to_digits(val, digit_bits))
  /\ UNCHANGED <<val, digit_bits, recovered>>
  /\ OutsideDigits

\* let recovered = digits_to_ubig(&digits_u64, base_bits);
DigitsToUbig ==
  /\ digits_u64 # None /\ recovered = None
  /\ recovered' = Some(digits_to_ubig(digits_u64[2], digit_bits))
  /\ UNCHANGED <<val, digit_bits, digits_u64>>
  /\ OutsideDigits

NextDigits ==
  \/ UbigToDigits
  \/ DigitsToUbig

SpecDigits == InitDigits /\ [][NextDigits]_vars

\* C28: the digits ubig_to_digits returns are all below 2^base_bits, are the
\* single digit 0 for the value zero and end in a non-zero digit for every
\* other value, and digits_to_ubig gives the value back from them.
C28_DigitsRoundTrip ==
  /\ digits_u64 # None =>
       /\ \A i \in 1..Len(digits_u64[2]) :
            digits_u64[2][i] >= 0 /\ digits_u64[2][i] < 2 ^ digit_bits
       /\ val = <<>> => digits_u64[2] = <<0>>
       /\ val # <<>> => digits_u64[2][Len(digits_u64[2])] # 0
  /\ recovered # None => recovered[2] = val

\* A value whose bytes end inside a digit that would otherwise be followed by
\* an empty one has gone through both conversions
C28_Witness ==
  /\ recovered # None /\ recovered[2] = val
  /\ val = <<0, 1>> /\ digit_bits = 12
  /\ digits_u64 = Some(<<256>>)


\* ------------------------------------------------------------------------
\* The HTTP server (main_impl.rs)
\* ------------------------------------------------------------------------

\* The runs explored: up to MaxHandlers /fib requests served concurrently by
\* an app created with a cache_size up to MaxCacheSize
MaxHandlers == 2

MaxCacheSize == 2

\* The capacity create_app falls back to when cache_size is 0
DEFAULT_CACHE_SIZE == 1000

\* The (n, algo) pairs requested
CacheKeys == {<<10, "Adaptive">>, <<10, "Fft">>, <<20, "FastDoubling">>}

\* The position of cache_key in the cache, from 1; 0 when it is absent
RECURSIVE position_of(_, _, _)
position_of(entries, cache_key, i) ==
  IF i > Len(entries) THEN 0
  ELSE IF entries[i].cache_key = cache_key THEN i
  ELSE position_of(entries, cache_key, i + 1)

\* The entries without the one at position i
without(entries, i) ==
  SubSeq(entries, 1, i - 1) \o SubSeq(entries, i + 1, Len(entries))

\* LruCache::get: the value under the key, which becomes the most recently
\* used entry; None when the key is absent. <<value, entries>>
LruCache_get(entries, cache_key) ==
  LET i == position_of(entries, cache_key, 1)
  IN  IF i = 0 THEN <<None, entries>>
      ELSE <<Some(entries[i].bytes), Append(without(entries, i), entries[i])>>

\* A variant of LruCache::put that never evicts
LruCache_put_unbounded(entries, cap, cache_key, value) ==
  LET i == position_of(entries, cache_key, 1)
      entry == [cache_key |-> cache_key, bytes |-> value]
  IN  IF i # 0 THEN Append(without(entries, i), entry)
      ELSE Append(entries, entry)

\* LruCache::put: the value replaces the one under the key, or is added after
\* the least recently used entry of a full cache has been dropped; the entry
\* becomes the most recently used
LruCache_put(entries, cap, cache_key, value) ==
  LET i == position_of(entries, cache_key, 1)
      entry == [cache_key |-> cache_key, bytes |-> value]
  IN  IF i # 0 THEN Append(without(entries, i), entry)
      ELSE IF Len(entries) >= cap THEN Append(without(entries, 1), entry)
      ELSE Append(entries, entry)

\* match algo { ... }: the algorithm named in the request, applied to n.
\* The n requested are below PARALLEL_CROSSOVER, where fibonacci_adaptive
\* runs fibonacci_fast_doubling; fibonacci_parallel runs under the threshold
\* in force.
compute(n, algo) ==
  CASE algo = "FastDoubling" -> fibonacci_fast_doubling(n)
    [] algo = "Parallel" -> fibonacci_parallel(n, LowThreshold)
    [] algo = "Fft" -> fibonacci_fft(n)
    [] algo = "Adaptive" -> fibonacci_fast_doubling(n)

\* to_vec_named(&BigIntWrapper(result)): the little-endian bytes as a
\* MessagePack bin 8 (0xc4, length, bytes)
to_vec_named(v) == <<196, Len(to_le_bytes(v))>> \o to_le_bytes(v)

\* create_app(cache_size): an empty cache, both counters 0
InitServer ==
  /\ \E cache_size \in 0..MaxCacheSize :
       capacity = IF cache_size = 0 THEN DEFAULT_CACHE_SIZE ELSE cache_size
  /\ cache = <<>>
  /\ cache_mutex = 0
  /\ hits = 0 /\ misses = 0
  /\ handlers = [h \in 1..MaxHandlers |-> [pc |-> "idle"]]
  /\ stats = [pc |-> "idle"]
  /\ NoRun /\ NoRequest /\ NoRange /\ NoPool /\ NoScope /\ NoProgress
  /\ NoBorrow /\ NoDigits /\ NoBench

OutsideServer ==
  /\ UNCHANGED runVars /\ UNCHANGED adaptiveVars /\ UNCHANGED rangeVars
  /\ UNCHANGED poolVars /\ UNCHANGED scopeVars /\ UNCHANGED progressVars
  /\ UNCHANGED borrowVars /\ UNCHANGED digitVars /\ UNCHANGED benchVars

\* A request GET /fib/n?algo= arrives: let cache_key = (n, algo)
GetFib ==
  /\ \E h \in 1..MaxHandlers, cache_key \in CacheKeys :
       /\ handlers[h].pc = "idle"
       /\ handlers' = [handlers EXCEPT ![h] =
                         [pc |-> "lookup", cache_key |-> cache_key]]
  /\ UNCHANGED <<cache, capacity, cache_mutex, hits, misses, stats>>
  /\ OutsideServer

\* state.cache.lock(); cache.get(&cache_key): on None the block ends and the
\* guard is dropped, on Some the guard is kept
Lookup ==
  /\ cache_mutex = 0
  /\ \E h \in 1..MaxHandlers :
       /\ handlers[h].pc = "lookup"
       /\ LET got == LruCache_get(cache, handlers[h].cache_key)
          IN  /\ cache' = got[2]
              /\ IF got[1] = None
                 THEN /\ handlers' = [handlers EXCEPT ![h].pc = "miss"]
                      /\ UNCHANGED cache_mutex
                 ELSE /\ handlers' = [handlers EXCEPT ![h] =
                                        [pc |-> "hit",
                                         cache_key |-> @.cache_key,
                                         cached_bytes |-> got[1][2]]]
                      /\ cache_mutex' = h
  /\ UNCHANGED <<capacity, hits, misses, stats>>
  /\ OutsideServer

\* state.hits.fetch_add(1); return cached_bytes.clone(): the guard is dropped
CountHit ==
  /\ \E h \in 1..MaxHandlers :
       /\ handlers[h].pc = "hit"
       /\ cache_mutex = h
       /\ handlers' = [handlers EXCEPT ![h] =
                         [pc |-> "done", cache_key |-> @.cache_key,
                          counted |-> "hits", response |-> @.cached_bytes]]
  /\ hits' = hits + 1
  /\ cache_mutex' = 0
  /\ UNCHANGED <<cache, capacity, misses, stats>>
  /\ OutsideServer

\* state.misses.fetch_add(1)
CountMiss ==
  /\ \E h \in 1..MaxHandlers :
       /\ handlers[h].pc = "miss"
       /\ handlers' = [handlers EXCEPT ![h].pc = "compute"]
  /\ misses' = misses + 1
  /\ UNCHANGED <<cache, capacity, cache_mutex, hits, stats>>
  /\ OutsideServer

\* The calculation and the serialization of its result
Compute ==
  /\ \E h \in 1..MaxHandlers :
       /\ handlers[h].pc = "compute"
       /\ handlers' = [handlers EXCEPT ![h] =
                         [pc |-> "store", cache_key |-> @.cache_key,
                          bytes |-> to_vec_named(compute(@.cache_key[1],
                                                         @.cache_key[2]))]]
  /\ UNCHANGED <<cache, capacity, cache_mutex, hits, misses, stats>>
  /\ OutsideServer

\* state.cache.lock(); cache.put(cache_key, bytes.clone()); the response
Store ==
  /\ cache_mutex = 0
  /\ \E h \in 1..MaxHandlers :
       /\ handlers[h].pc = "store"
       /\ cache' = LruCache_put(cache, capacity, handlers[h].cache_key,
                                handlers[h].bytes)
       /\ handlers' = [handlers EXCEPT ![h] =
                         [pc |-> "done", cache_key |-> @.cache_key,
                          counted |-> "misses", response |-> @.bytes]]
  /\ UNCHANGED <<capacity, cache_mutex, hits, misses, stats>>
  /\ OutsideServer

\* cache_stats: let hits = state.hits.load(Relaxed)
StatsLoadHits ==
  /\ stats.pc = "idle"
  /\ stats' = [pc |-> "misses", hits |-> hits]
  /\ UNCHANGED <<cache, capacity, cache_mutex, hits, misses, handlers>>
  /\ OutsideServer

\* cache_stats: let misses = state.misses.load(Relaxed)
StatsLoadMisses ==
  /\ stats.pc = "misses"
  /\ stats' = [pc |-> "lock", hits |-> stats.hits, misses |-> misses]
  /\ UNCHANGED <<cache, capacity, cache_mutex, hits, misses, handlers>>
  /\ OutsideServer

\* cache_stats: state.cache.lock(); cache.len(), cache.cap()
StatsRead ==
  /\ stats.pc = "lock"
  /\ cache_mutex = 0
  /\ stats' = [pc |-> "done", hits |-> stats.hits, misses |-> stats.misses,
               cached_entries |-> Len(cache), cache_capacity |-> capacity]
  /\ UNCHANGED <<cache, capacity, cache_mutex, hits, misses, handlers>>
  /\ OutsideServer

NextServer ==
  \/ GetFib
  \/ Lookup
  \/ CountHit
  \/ CountMiss
  \/ Compute
  \/ Store
  \/ StatsLoadHits
  \/ StatsLoadMisses
  \/ StatsRead

SpecServer == InitServer /\ [][NextServer]_vars


\* The requests that have done their cache lookup
LookedUp == {h \in 1..MaxHandlers : handlers[h].pc \notin {"idle", "lookup"}}

\* The requests that have incremented hits, and those that have incremented
\* misses
CountedHit ==
  {h \in 1..MaxHandlers : handlers[h].pc = "done" /\ handlers[h].counted = "hits"}

CountedMiss ==
  {h \in 1..MaxHandlers :
     \/ handlers[h].pc \in {"compute", "store"}
     \/ handlers[h].pc = "done" /\ handlers[h].counted = "misses"}

\* The keys the cache holds
CachedKeys == {cache[i].cache_key : i \in 1..Len(cache)}

\* A request that does its lookup goes on as a miss exactly when its key is
\* absent from the cache at that step, and as a hit with the cached bytes
\* otherwise
LookupDecides ==
  \A h \in 1..MaxHandlers :
    handlers[h].pc = "lookup" /\ handlers'[h].pc # "lookup" =>
      /\ handlers'[h].pc = "miss" <=> handlers[h].cache_key \notin CachedKeys
      /\ handlers'[h].pc = "hit" <=> handlers[h].cache_key \in CachedKeys

\* The cache holds each key once and never more entries than its capacity
CacheWithinCapacity ==
  /\ Len(cache) <= capacity
  /\ Cardinality(CachedKeys) = Len(cache)

\* C29 as stated: at every moment hits + misses is the number of requests
\* that have done their cache lookup, and the cache is within its capacity.
C29_CountersMatchLookups ==
  /\ hits + misses = Cardinality(LookedUp)
  /\ CacheWithinCapacity

\* C29, amended: every request increments exactly one counter, once, after
\* its lookup: hits (under the cache lock) when the lookup found its key,
\* misses (after the lock is released) when the key was absent, so hits and
\* misses count the requests that have passed their increment, hits + misses
\* is at most the number of requests that have done their lookup and equals
\* it whenever no request is between its lookup and its increment; requests
\* that found the same key absent all compute; and the cache never holds
\* more entries than its capacity.
C29_CountersFollowLookups ==
  /\ [](/\ hits = Cardinality(CountedHit)
        /\ misses = Cardinality(CountedMiss)
        /\ CountedHit \cap CountedMiss = {}
        /\ CountedHit \cup CountedMiss \subseteq LookedUp
        /\ (\A h \in 1..MaxHandlers : handlers[h].pc \notin {"hit", "miss"})
             => hits + misses = Cardinality(LookedUp)
        /\ stats.pc = "done" =>
             stats.hits + stats.misses <= Cardinality(LookedUp)
        /\ CacheWithinCapacity)
  /\ [][LookupDecides]_vars

\* Every request asked for one key, found it absent and computed; the
\* cache is full, and the statistics read in between saw fewer misses
C29_Witness ==
  /\ \A h \in 1..MaxHandlers :
       /\ handlers[h].pc = "done" /\ handlers[h].counted = "misses"
       /\ handlers[h].cache_key = <<10, "Fft">>
       /\ handlers[h].response = <<196, 1, 55>>
  /\ misses = MaxHandlers /\ hits = 0
  /\ Len(cache) = capacity
  /\ stats.pc = "done" /\ stats.misses = 1


\* ------------------------------------------------------------------------
\* The benchmark with a worker pool (FibonacciFunction.rs)
\* ------------------------------------------------------------------------

\* The calls explored: up to MaxWorkerCount workers, up to MaxValues values,
\* up to MaxRepetitions repetitions
MaxWorkerCount == 2

MaxValues == 2

MaxRepetitions == 2

MAX_FIB_VALUE == 500000001

\* The values benchmarked: one answered before the cache, one calculated and
\* cached, one above MAX_FIB_VALUE
BenchValues == {1, 10, MAX_FIB_VALUE + 1}

\* 64 - n.leading_zeros()
bit_length(n) == IF n = 0 THEN 0 ELSE highest_bit(n) + 1

\* fib_doubling_helper_iterative(n): from (F(0), F(1)), for every bit of n
\* from the most significant, c = a * (2b - a), d = a^2 + b^2, then (c, d)
\* for a 0 bit and (d, c + d) for a 1 bit; the result is a
helper_step(a, b, bit) ==
  LET c == BigMul(a, BigSub(BigShl1(b), a))
      d == BigAdd(BigMul(a, a), BigMul(b, b))
  IN  IF bit = 0 THEN <<c, d>> ELSE <<d, BigAdd(c, d)>>

RECURSIVE helper_loop(_, _, _)
helper_loop(n, i, s) ==
  IF i < 0 THEN s
  ELSE helper_loop(n, i - 1, helper_step(s[1], s[2], Bit(n, i)))

fib_doubling_helper_iterative(n) ==
  helper_loop(n, bit_length(n) - 1, <<<<>>, <<1>>>>)[1]

\* The results of fib_doubling_helper_iterative for the values benchmarked
\* that reach it
helper_results ==
  [n \in {v \in BenchValues : v >= 2 /\ v <= MAX_FIB_VALUE} |->
     fib_doubling_helper_iterative(n)]

\* fib_doubling(n) with the cache as the calls before it left it:
\* <<result, cache>>. A cached value is the one the calculation returns.
fib_doubling(n, cached) ==
  IF n < 2 THEN <<[tag |-> "Ok", value |-> FromNat(n)], cached>>
  ELSE IF n > MAX_FIB_VALUE
  THEN <<[tag |-> "Err", err |-> "n est trop grand pour cette implementation"],
         cached>>
  ELSE <<[tag |-> "Ok", value |-> helper_results[n]], cached \cup {n}>>

\* The sequences of up to len values
RECURSIVE ValueLists(_)
ValueLists(len) ==
  IF len = 0 THEN {<<>>}
  ELSE ValueLists(len - 1)
       \cup {Append(l, v) : l \in [1..(len - 1) -> BenchValues], v \in BenchValues}

\* A worker thread before its first value
fresh_worker == [pc |-> "value", i |-> 1, done |-> 0, sent |-> 0]

\* benchmark_fib_with_worker_pool(n_values, repetitions, worker_count) has
\* created the channel
InitBench ==
  /\ n_values \in ValueLists(MaxValues)
  /\ repetitions \in 0..MaxRepetitions
  /\ worker_count \in 0..MaxWorkerCount
  /\ main_pc = "spawn"
  /\ spawned_workers = 0
  /\ workers = <<>>
  /\ channel = <<>>
  /\ senders = 1
  /\ received = <<>>
  /\ LRU_CACHE = {}
  /\ NoRun /\ NoRequest /\ NoRange /\ NoPool /\ NoScope /\ NoProgress
  /\ NoBorrow /\ NoDigits /\ NoServer

OutsideBench ==
  /\ UNCHANGED runVars /\ UNCHANGED adaptiveVars /\ UNCHANGED rangeVars
  /\ UNCHANGED poolVars /\ UNCHANGED scopeVars /\ UNCHANGED progressVars
  /\ UNCHANGED borrowVars /\ UNCHANGED digitVars /\ UNCHANGED serverVars

\* for _ in 0..worker_count { let tx = tx.clone(); thread::spawn(...) }
SpawnWorker ==
  /\ main_pc = "spawn" /\ spawned_workers < worker_count
  /\ spawned_workers' = spawned_workers + 1
  /\ workers' = Append(workers, fresh_worker)
  /\ senders' = senders + 1
  /\ UNCHANGED <<n_values, repetitions, worker_count, main_pc, channel,
                 received, LRU_CACHE>>
  /\ OutsideBench

\* drop(tx)
DropSender ==
  /\ main_pc = "spawn" /\ spawned_workers = worker_count
  /\ main_pc' = "receive"
  /\ senders' = senders - 1
  /\ UNCHANGED <<n_values, repetitions, worker_count, spawned_workers,
                 workers, channel, received, LRU_CACHE>>
  /\ OutsideBench

\* for (n, avg_exec_time) in rx.iter(): one message is taken and printed
Receive ==
  /\ main_pc = "receive" /\ channel # <<>>
  /\ received' = Append(received, Head(channel))
  /\ channel' = Tail(channel)
  /\ UNCHANGED <<n_values, repetitions, worker_count, main_pc,
                 spawned_workers, workers, senders, LRU_CACHE>>
  /\ OutsideBench

\* rx.iter() ends: the channel is empty and every sender has been dropped
Disconnected ==
  /\ main_pc = "receive" /\ channel = <<>> /\ senders = 0
  /\ main_pc' = "returned"
  /\ UNCHANGED <<n_values, repetitions, worker_count, spawned_workers,
                 workers, channel, senders, received, LRU_CACHE>>
  /\ OutsideBench

\* A worker's thread ends and drops its sender
stopped(worker, why) == [worker EXCEPT !.pc = why]

\* One repetition for the current value: fib_doubling(n), whose Err makes
\* the worker print the error and return
Repetition ==
  /\ \E w \in 1..Len(workers) :
       /\ workers[w].pc = "value"
       /\ workers[w].i <= Len(n_values)
       /\ workers[w].done < repetitions
       /\ LRU_CACHE' = fib_doubling(n_values[workers[w].i], LRU_CACHE)[2]
       /\ IF fib_doubling(n_values[workers[w].i], LRU_CACHE)[1].tag = "Ok"
          THEN /\ workers' = [workers EXCEPT ![w].done = @ + 1]
               /\ UNCHANGED senders
          ELSE /\ workers' = [workers EXCEPT ![w] = stopped(@, "rejected")]
               /\ senders' = senders - 1
  /\ UNCHANGED <<n_values, repetitions, worker_count, main_pc,
                 spawned_workers, channel, received>>
  /\ OutsideBench

\* After the repetitions: total_exec_time / repetitions, which panics when
\* repetitions is 0, then tx.send((n, avg_exec_time)) and the next value
Send ==
  /\ \E w \in 1..Len(workers) :
       /\ workers[w].pc = "value"
       /\ workers[w].i <= Len(n_values)
       /\ workers[w].done = repetitions
       /\ IF repetitions = 0
          THEN /\ workers' = [workers EXCEPT ![w] = stopped(@, "panicked")]
               /\ senders' = senders - 1
               /\ UNCHANGED channel
          ELSE /\ channel' = Append(channel, <<n_values[workers[w].i], w>>)
               /\ workers' = [workers EXCEPT ![w] =
                                [pc |-> "value", i |-> @.i + 1, done |-> 0,
                                 sent |-> @.sent + 1]]
               /\ UNCHANGED senders
  /\ UNCHANGED <<n_values, repetitions, worker_count, main_pc,
                 spawned_workers, received, LRU_CACHE>>
  /\ OutsideBench

\* The loop over n_values ends: the closure returns and tx is dropped
WorkerReturn ==
  /\ \E w \in 1..Len(workers) :
       /\ workers[w].pc = "value"
       /\ workers[w].i > Len(n_values)
       /\ workers' = [workers EXCEPT ![w] = stopped(@, "finished")]
  /\ senders' = senders - 1
  /\ UNCHANGED <<n_values, repetitions, worker_count, main_pc,
                 spawned_workers, channel, received, LRU_CACHE>>
  /\ OutsideBench

NextBench ==
  \/ SpawnWorker
  \/ DropSender
  \/ Receive
  \/ Disconnected
  \/ Repetition
  \/ Send
  \/ WorkerReturn

SpecBench == InitBench /\ [][NextBench]_vars

\* Every thread that can take a step is scheduled in the end
SpecBenchFair ==
  /\ SpecBench
  /\ WF_vars(SpawnWorker) /\ WF_vars(DropSender)
  /\ WF_vars(Receive) /\ WF_vars(Disconnected)
  /\ WF_vars(Repetition) /\ WF_vars(Send) /\ WF_vars(WorkerReturn)

\* The call returns under every interleaving
BenchTerminates == <>(main_pc = "returned")

\* The index of the first value fib_doubling rejects; 0 when there is none
RECURSIVE first_rejected(_)
first_rejected(i) ==
  IF i > Len(n_values) THEN 0
  ELSE IF n_values[i] > MAX_FIB_VALUE THEN i
  ELSE first_rejected(i + 1)

====
